---- MODULE Spec2Model ----
(***************************************************************************)
(* A model of crates/mbe/src/syntax_bridge.rs: the bridge between a        *)
(* concrete syntax tree (or a lexed string) and token trees.               *)
(*                                                                         *)
(*   - TokenIdAlloc and the TokenMap it writes,                            *)
(*   - the two token sources, RawConvertor and Convertor,                  *)
(*   - convert_tokens, one action per branch of its loop,                  *)
(*   - TtTreeSink, replaying a token tree under parser events.             *)
(*                                                                         *)
(* Texts are sequences of one-character strings, ranges are records        *)
(* [s, e] for the half-open byte range [s, e).                             *)
(***************************************************************************)
EXTENDS Integers, Sequences, FiniteSets, TLC

VARIABLES
    input,      \* what the caller passed: the lexed text or the syntax node
    conv,       \* the token source: RawConvertor or Convertor, with its id_alloc
    stack,      \* convert_tokens' stack of StackEntry
    pc,         \* where the run is: "convert", "flush", "done" or "panic", then
                \* "sink" and "finished" when the result is replayed
    result,     \* the Subtree convert_tokens returned
    sink        \* TtTreeSink

vars == <<input, conv, stack, pc, result, sink>>

----------------------------------------------------------------------------
(* Bounds of the model. *)

\* the longest lexed string handed to parse_to_token_tree, in tokens
MaxLen == 3
\* the most tokens a syntax node handed to syntax_node_to_token_tree holds
MaxCstLen == 2
\* the most raw tokens one parser Step::Token covers
MaxStep == 2
\* where the converted syntax node starts in its file
NodeStart == 3
\* the next_id the caller of syntax_node_to_token_tree_with_modifications passes
FirstId == 5

----------------------------------------------------------------------------
(* Small helpers. *)

Range(s, e) == [s |-> s, e |-> e]
\* TextRange::at(offset, len)
RangeAt(s, len) == [s |-> s, e |-> s + len]
RangeLen(r) == r.e - r.s
\* TextRange - TextSize
RangeSub(r, off) == [s |-> r.s - off, e |-> r.e - off]

RECURSIVE Concat(_)
Concat(ss) == IF ss = <<>> THEN <<>> ELSE Head(ss) \o Concat(Tail(ss))

\* a reverse that leaves the list as it is
ReverseKeeps(s) == s

\* Vec::reverse
Reverse(s) == [i \in 1..Len(s) |-> s[Len(s) + 1 - i]]

RemoveAt(s, i) == [j \in 1..(Len(s) - 1) |-> IF j < i THEN s[j] ELSE s[j + 1]]

\* the sequences over S of length at most n
SeqUpTo(S, n) == UNION {[1..k -> S] : k \in 0..n}

----------------------------------------------------------------------------
(* SyntaxKind and its predicates. *)

PunctKinds ==
    {"PLUS", "SEMICOLON", "COLON", "COLON2", "UNDERSCORE",
     "L_PAREN", "R_PAREN", "L_CURLY", "R_CURLY", "L_BRACK", "R_BRACK"}

is_punct(kind) == kind \in PunctKinds
is_trivia(kind) == kind \in {"WHITESPACE", "COMMENT"}
is_keyword(kind) == kind \in {"FN_KW", "TRUE_KW", "FALSE_KW"}
is_literal(kind) == kind \in {"INT_NUMBER", "STRING"}

----------------------------------------------------------------------------
(* tt: token trees. *)

\* tt::TokenId::unspecified(), TokenId(!0): an id that is never minted
Unspecified == -1

NoDelimiter == [kind |-> "None", id |-> Unspecified]
Delimiter(kind, id) == [kind |-> kind, id |-> id]

Subtree(delimiter, token_trees) ==
    [tt |-> "Subtree", delimiter |-> delimiter, token_trees |-> token_trees]
Ident(text, id) == [tt |-> "Ident", text |-> text, id |-> id]
Literal(text, id) == [tt |-> "Literal", text |-> text, id |-> id]
Punct(char, spacing, id) == [tt |-> "Punct", char |-> char, spacing |-> spacing, id |-> id]

----------------------------------------------------------------------------
(* Option<T>: the empty sequence is None, a one-element sequence is Some. *)

None == <<>>
Some(x) == <<x>>
IsSome(o) == o # <<>>
Unwrap(o) == o[1]

----------------------------------------------------------------------------
(* TokenMap: the three relations the allocator writes. *)

EmptyTokenMap == [tokens |-> <<>>, delims |-> <<>>, synthetic |-> <<>>]

\* TokenMap::insert
MapInsert(map, id, range) ==
    [map EXCEPT !.tokens = Append(@, [id |-> id, range |-> range])]

\* TokenMap::insert_synthetic
MapInsertSynthetic(map, id, origin) ==
    [map EXCEPT !.synthetic = Append(@, [id |-> id, origin |-> origin])]

\* TokenMap::insert_delim: the new pair and its slot
MapInsertDelim(map, id, open, close) ==
    [map |-> [map EXCEPT !.delims = Append(@, [id |-> id, open |-> open, close |-> close])],
     idx |-> Len(map.delims) + 1]

\* TokenMap::update_close_delim
MapUpdateCloseDelim(map, idx, close) ==
    IF idx \in 1..Len(map.delims)
    THEN [map EXCEPT !.delims[idx].close = close]
    ELSE map

\* TokenMap::remove_delim
MapRemoveDelim(map, idx) ==
    IF idx \in 1..Len(map.delims)
    THEN [map EXCEPT !.delims = RemoveAt(@, idx)]
    ELSE map

----------------------------------------------------------------------------
(* TokenIdAlloc. *)

NewIdAlloc(map, global_offset, next_id) ==
    [map |-> map, global_offset |-> global_offset, next_id |-> next_id]

\* `absolute_range - self.global_offset` panics when the range starts before
\* the offset
CanShift(a, absolute_range) == absolute_range.s >= a.global_offset

\* an alloc that counts next_id down
AllocCountsDown(a, absolute_range, synthetic_id) ==
    LET relative_range == RangeSub(absolute_range, a.global_offset)
        token_id == a.next_id
        m1 == MapInsert(a.map, token_id, relative_range)
        m2 == IF IsSome(synthetic_id)
              THEN MapInsertSynthetic(m1, token_id, Unwrap(synthetic_id))
              ELSE m1
    IN [a |-> [a EXCEPT !.next_id = @ - 1, !.map = m2], id |-> token_id]

\* an alloc that hands out next_id and leaves it where it was
AllocKeepsNextId(a, absolute_range, synthetic_id) ==
    LET relative_range == RangeSub(absolute_range, a.global_offset)
        token_id == a.next_id
        m1 == MapInsert(a.map, token_id, relative_range)
        m2 == IF IsSome(synthetic_id)
              THEN MapInsertSynthetic(m1, token_id, Unwrap(synthetic_id))
              ELSE m1
    IN [a |-> [a EXCEPT !.map = m2], id |-> token_id]

\* TokenIdAlloc::alloc: the allocator afterwards, and the id it minted
Alloc(a, absolute_range, synthetic_id) ==
    LET relative_range == RangeSub(absolute_range, a.global_offset)
        token_id == a.next_id
        m1 == MapInsert(a.map, token_id, relative_range)
        m2 == IF IsSome(synthetic_id)
              THEN MapInsertSynthetic(m1, token_id, Unwrap(synthetic_id))
              ELSE m1
    IN [a |-> [a EXCEPT !.next_id = @ + 1, !.map = m2], id |-> token_id]

\* an open_delim that hands out next_id and leaves it where it was
OpenDelimKeepsNextId(a, open_abs_range) ==
    LET token_id == a.next_id
        rel == RangeSub(open_abs_range, a.global_offset)
        ins == MapInsertDelim(a.map, token_id, rel, rel)
    IN [a |-> [a EXCEPT !.map = ins.map], id |-> token_id, idx |-> ins.idx]

\* TokenIdAlloc::open_delim: the allocator afterwards, the id and the slot
OpenDelim(a, open_abs_range) ==
    LET token_id == a.next_id
        rel == RangeSub(open_abs_range, a.global_offset)
        ins == MapInsertDelim(a.map, token_id, rel, rel)
    IN [a |-> [a EXCEPT !.next_id = @ + 1, !.map = ins.map],
        id |-> token_id, idx |-> ins.idx]

\* a close_delim that keeps the pair of a delimiter that was never closed
CloseDelimKeepsPair(a, idx, close_abs_range) ==
    IF IsSome(close_abs_range)
    THEN [a EXCEPT !.map =
             MapUpdateCloseDelim(@, idx, RangeSub(Unwrap(close_abs_range), a.global_offset))]
    ELSE a

\* TokenIdAlloc::close_delim
CloseDelim(a, idx, close_abs_range) ==
    IF IsSome(close_abs_range)
    THEN [a EXCEPT !.map =
             MapUpdateCloseDelim(@, idx, RangeSub(Unwrap(close_abs_range), a.global_offset))]
    ELSE [a EXCEPT !.map = MapRemoveDelim(@, idx)]

----------------------------------------------------------------------------
(* Tokens of the source text. *)

Tok(kind, text) == [kind |-> kind, text |-> text]

\* SyntheticToken { kind, text, range, id }
SyntheticToken(kind, text, range, id) ==
    [kind |-> kind, text |-> text, range |-> range, id |-> id]

\* SynToken, and the usize token of RawConvertor
Ordinary(t) == [variant |-> "Ordinary", tok |-> t, off |-> 0, syn |-> None]
Punch(t, off) == [variant |-> "Punch", tok |-> t, off |-> off, syn |-> None]
Synthetic(s) == [variant |-> "Synthetic", tok |-> 0, off |-> 0, syn |-> Some(s)]
RawToken(i) == [variant |-> "Raw", tok |-> i, off |-> 0, syn |-> None]

\* the i-th token (from 0) of the lexed text or of the syntax node
TokenAt(i) == input.lexed[i + 1]

\* SrcToken::kind
Kind(token) ==
    IF token.variant = "Synthetic" THEN Unwrap(token.syn).kind
    ELSE TokenAt(token.tok).kind

\* SrcToken::to_char
ToChar(token) ==
    CASE token.variant = "Raw" ->
            LET text == TokenAt(token.tok).text
            IN IF text = <<>> THEN None ELSE Some(text[1])
      [] token.variant = "Ordinary" -> None
      [] token.variant = "Punch" ->
            LET text == TokenAt(token.tok).text
            IN IF token.off < Len(text) THEN Some(text[token.off + 1]) ELSE None
      [] token.variant = "Synthetic" ->
            LET text == Unwrap(token.syn).text
            IN IF Len(text) = 1 THEN Some(text[1]) ELSE None

\* SrcToken::to_text
ToText(token) ==
    IF token.variant = "Synthetic" THEN Unwrap(token.syn).text
    ELSE TokenAt(token.tok).text

\* SrcToken::synthetic_id
SyntheticId(token) ==
    IF token.variant = "Synthetic" THEN Some(Unwrap(token.syn).id) ELSE None

----------------------------------------------------------------------------
(* RawConvertor. *)

NoBump(c) == [some |-> FALSE, token |-> RawToken(0), range |-> Range(0, 0), conv |-> c]

\* RawConvertor::bump
RawBump(c) ==
    IF c.pos = Len(input.lexed) THEN NoBump(c)
    ELSE [some |-> TRUE, token |-> RawToken(c.pos),
          range |-> TokenAt(c.pos).range,
          conv |-> [c EXCEPT !.pos = @ + 1]]

\* RawConvertor::peek
RawPeek(c) ==
    IF c.pos = Len(input.lexed) THEN None ELSE Some(RawToken(c.pos))

----------------------------------------------------------------------------
(* The syntax tree walked by Convertor: its preorder events, as           *)
(* node.preorder_with_tokens() yields them.  tok is 0 for a node's event,  *)
(* node is 0 for a token's.                                                *)

EnterNode(n) == [ev |-> "Enter", node |-> n, tok |-> 0]
LeaveNode(n) == [ev |-> "Leave", node |-> n, tok |-> 0]
\* tokens are numbered from 0, as TokenAt numbers them
EnterToken(i) == [ev |-> "Enter", node |-> 0, tok |-> i + 1]
LeaveToken(i) == [ev |-> "Leave", node |-> 0, tok |-> i + 1]
IsNodeEvent(ev) == ev.node # 0

\* the index of the Leave event of the node entered at events[p]
RECURSIVE MatchingLeave(_, _)
MatchingLeave(node, p) ==
    IF p > Len(input.events) THEN p
    ELSE IF input.events[p] = LeaveNode(node) THEN p
    ELSE MatchingLeave(node, p + 1)

\* a skip_subtree that skips nothing
SkipSubtreeStays(node, p) == p

\* PreorderWithTokens::skip_subtree, called right after Enter(node) was
\* yielded: when the next event enters the first child, the next event
\* becomes the node's own Leave
SkipSubtree(node, p) ==
    IF p <= Len(input.events) /\ input.events[p].ev = "Enter"
    THEN MatchingLeave(node, p)
    ELSE p

\* FxHashMap::remove
MapRemove(m, k) == [n \in (DOMAIN m) \ {k} |-> m[n]]

----------------------------------------------------------------------------
(* Convertor. *)

\* Convertor::next_token: the next real token or the next batch of synthetic
\* tokens (reversed, to be popped), with the walker and the maps afterwards
RECURSIVE NextToken(_, _, _)
NextToken(preorder, replace, append) ==
    IF preorder > Len(input.events)
    THEN [current |-> None, synthetic |-> <<>>,
          preorder |-> preorder, replace |-> replace, append |-> append]
    ELSE
      LET ev == input.events[preorder] IN
      IF ev.ev = "Leave" THEN
          IF IsNodeEvent(ev) /\ ev.node \in DOMAIN append
          THEN LET v == append[ev.node]
                   rest == MapRemove(append, ev.node)
               IN IF v # <<>>
                  THEN [current |-> None, synthetic |-> Reverse(v),
                        preorder |-> preorder + 1, replace |-> replace, append |-> rest]
                  ELSE NextToken(preorder + 1, replace, rest)
          ELSE NextToken(preorder + 1, replace, append)
      ELSE IF ~IsNodeEvent(ev) THEN
          [current |-> Some(ev.tok - 1), synthetic |-> <<>>,
           preorder |-> preorder + 1, replace |-> replace, append |-> append]
      ELSE IF ev.node \in DOMAIN replace THEN
          LET v == replace[ev.node]
              rest == MapRemove(replace, ev.node)
              skipped == SkipSubtree(ev.node, preorder + 1)
          IN IF v # <<>>
             THEN [current |-> None, synthetic |-> Reverse(v),
                   preorder |-> skipped, replace |-> rest, append |-> append]
             ELSE NextToken(skipped, rest, append)
      ELSE NextToken(preorder + 1, replace, append)

\* the fields of Convertor that next_token rewrites
WithNext(c, nt) ==
    [c EXCEPT !.current = nt.current, !.current_synthetic = nt.synthetic,
              !.preorder = nt.preorder, !.replace = nt.replace, !.append = nt.append]

\* TextRange::contains_range
ContainsRange(outer, inner) == outer.s <= inner.s /\ inner.e <= outer.e

\* Convertor::new
NewConvertor(node_range, global_offset, existing_token_map, next_id, replace, append) ==
    LET nt == NextToken(1, replace, append)
    IN [id_alloc |-> NewIdAlloc(existing_token_map, global_offset, next_id),
        current |-> nt.current,
        current_synthetic |-> nt.synthetic,
        preorder |-> nt.preorder,
        range |-> node_range,
        replace |-> nt.replace,
        append |-> nt.append,
        punct_offset |-> None]

\* a bump that hands out the synthetic tokens before the rest of a punct
CstBumpSyntheticFirst(c) ==
    IF c.current_synthetic # <<>> THEN
        LET n == Len(c.current_synthetic)
            synth_token == c.current_synthetic[n]
            popped == [c EXCEPT !.current_synthetic = SubSeq(@, 1, n - 1)]
            after == IF popped.current_synthetic = <<>>
                     THEN WithNext(popped, NextToken(c.preorder, c.replace, c.append))
                     ELSE popped
        IN [some |-> TRUE, token |-> Synthetic(synth_token),
            range |-> synth_token.range, conv |-> after]
    ELSE IF IsSome(c.punct_offset)
       /\ Unwrap(c.punct_offset).off + 1 < Len(TokenAt(Unwrap(c.punct_offset).tok).text)
    THEN
        LET punct == Unwrap(c.punct_offset).tok
            offset == Unwrap(c.punct_offset).off + 1
            range == TokenAt(punct).range
        IN [some |-> TRUE, token |-> Punch(punct, offset),
            range |-> RangeAt(range.s + offset, 1),
            conv |-> [c EXCEPT !.punct_offset = Some([tok |-> punct, off |-> offset])]]
    ELSE IF ~IsSome(c.current) THEN NoBump(c)
    ELSE
        LET curr == Unwrap(c.current) IN
        IF ~ContainsRange(c.range, TokenAt(curr).range) THEN NoBump(c)
        ELSE
          LET after == WithNext(c, NextToken(c.preorder, c.replace, c.append))
              range == TokenAt(curr).range
          IN IF is_punct(TokenAt(curr).kind)
             THEN [some |-> TRUE, token |-> Punch(curr, 0),
                   range |-> RangeAt(range.s, 1),
                   conv |-> [after EXCEPT !.punct_offset = Some([tok |-> curr, off |-> 0])]]
             ELSE [some |-> TRUE, token |-> Ordinary(curr),
                   range |-> range,
                   conv |-> [after EXCEPT !.punct_offset = None]]

\* Convertor::bump
CstBump(c) ==
    IF IsSome(c.punct_offset)
       /\ Unwrap(c.punct_offset).off + 1 < Len(TokenAt(Unwrap(c.punct_offset).tok).text)
    THEN
        LET punct == Unwrap(c.punct_offset).tok
            offset == Unwrap(c.punct_offset).off + 1
            range == TokenAt(punct).range
        IN [some |-> TRUE, token |-> Punch(punct, offset),
            range |-> RangeAt(range.s + offset, 1),
            conv |-> [c EXCEPT !.punct_offset = Some([tok |-> punct, off |-> offset])]]
    ELSE IF c.current_synthetic # <<>> THEN
        LET n == Len(c.current_synthetic)
            synth_token == c.current_synthetic[n]
            popped == [c EXCEPT !.current_synthetic = SubSeq(@, 1, n - 1)]
            after == IF popped.current_synthetic = <<>>
                     THEN WithNext(popped, NextToken(c.preorder, c.replace, c.append))
                     ELSE popped
        IN [some |-> TRUE, token |-> Synthetic(synth_token),
            range |-> synth_token.range, conv |-> after]
    ELSE IF ~IsSome(c.current) THEN NoBump(c)
    ELSE
        LET curr == Unwrap(c.current) IN
        IF ~ContainsRange(c.range, TokenAt(curr).range) THEN NoBump(c)
        ELSE
          LET after == WithNext(c, NextToken(c.preorder, c.replace, c.append))
              range == TokenAt(curr).range
          IN IF is_punct(TokenAt(curr).kind)
             THEN [some |-> TRUE, token |-> Punch(curr, 0),
                   range |-> RangeAt(range.s, 1),
                   conv |-> [after EXCEPT !.punct_offset = Some([tok |-> curr, off |-> 0])]]
             ELSE [some |-> TRUE, token |-> Ordinary(curr),
                   range |-> range,
                   conv |-> [after EXCEPT !.punct_offset = None]]

\* peek that overlooks the queue of synthetic tokens
CstPeekSkipsSynthetic(c) ==
    IF IsSome(c.punct_offset)
       /\ Unwrap(c.punct_offset).off + 1 < Len(TokenAt(Unwrap(c.punct_offset).tok).text)
    THEN Some(Punch(Unwrap(c.punct_offset).tok, Unwrap(c.punct_offset).off + 1))
    ELSE IF ~IsSome(c.current) THEN None
    ELSE
        LET curr == Unwrap(c.current) IN
        IF ~ContainsRange(c.range, TokenAt(curr).range) THEN None
        ELSE IF is_punct(TokenAt(curr).kind) THEN Some(Punch(curr, 0))
        ELSE Some(Ordinary(curr))

\* Convertor::peek
CstPeek(c) ==
    IF IsSome(c.punct_offset)
       /\ Unwrap(c.punct_offset).off + 1 < Len(TokenAt(Unwrap(c.punct_offset).tok).text)
    THEN Some(Punch(Unwrap(c.punct_offset).tok, Unwrap(c.punct_offset).off + 1))
    ELSE IF c.current_synthetic # <<>>
    THEN Some(Synthetic(c.current_synthetic[Len(c.current_synthetic)]))
    ELSE IF ~IsSome(c.current) THEN None
    ELSE
        LET curr == Unwrap(c.current) IN
        IF ~ContainsRange(c.range, TokenAt(curr).range) THEN None
        ELSE IF is_punct(TokenAt(curr).kind) THEN Some(Punch(curr, 0))
        ELSE Some(Ordinary(curr))

----------------------------------------------------------------------------
(* TokenConvertor: the token source convert_tokens pulls from. *)

\* TokenConvertor::bump
Bump(c) == IF input.mode = "raw" THEN RawBump(c) ELSE CstBump(c)

\* TokenConvertor::peek
Peek(c) == IF input.mode = "raw" THEN RawPeek(c) ELSE CstPeek(c)

----------------------------------------------------------------------------
(* Doc comments. *)

IsPrefix(p, text) == Len(p) <= Len(text) /\ SubSeq(text, 1, Len(p)) = p

\* ast::Comment::kind: the prefix, the shape and the doc placement
CommentKind(text) ==
    CASE IsPrefix(<<"/", "/", "/">>, text) -> [prefix |-> 3, shape |-> "Line", doc |-> "Outer"]
      [] IsPrefix(<<"/", "/", "!">>, text) -> [prefix |-> 3, shape |-> "Line", doc |-> "Inner"]
      [] IsPrefix(<<"/", "*", "*">>, text) -> [prefix |-> 3, shape |-> "Block", doc |-> "Outer"]
      [] IsPrefix(<<"/", "*", "!">>, text) -> [prefix |-> 3, shape |-> "Block", doc |-> "Inner"]
      [] IsPrefix(<<"/", "*">>, text) -> [prefix |-> 2, shape |-> "Block", doc |-> "None"]
      [] OTHER -> [prefix |-> 2, shape |-> "Line", doc |-> "None"]

\* char::escape_debug on the characters the texts use
EscapeDebug(text) ==
    Concat([i \in 1..Len(text) |->
        IF text[i] \in {"\"", "\\"} THEN <<"\\", text[i]>> ELSE <<text[i]>>])

\* doc_comment_text
DocCommentText(text) ==
    LET kind == CommentKind(text)
        body == SubSeq(text, kind.prefix + 1, Len(text))
        inner == IF kind.shape = "Block" THEN SubSeq(body, 1, Len(body) - 2) ELSE body
    IN <<"\"">> \o EscapeDebug(inner) \o <<"\"">>

MkIdent(s) == Ident(s, Unspecified)
MkPunct(c) == Punct(c, "Alone", Unspecified)
MkDocLiteral(text) == Literal(DocCommentText(text), Unspecified)

\* convert_doc_comment, on the text of a COMMENT token
ConvertDocCommentText(text) ==
    LET doc == CommentKind(text).doc
        meta_tkns == <<MkIdent(<<"d", "o", "c">>), MkPunct("="), MkDocLiteral(text)>>
    IN IF doc = "None" THEN None
       ELSE Some(<<MkPunct("#")>>
                 \o (IF doc = "Inner" THEN <<MkPunct("!")>> ELSE <<>>)
                 \o <<Subtree(Delimiter("Bracket", Unspecified), meta_tkns)>>)

\* TokenConvertor::convert_doc_comment: a synthetic token has no syntax token
ConvertDocComment(token) ==
    IF token.variant = "Synthetic" THEN None
    ELSE ConvertDocCommentText(TokenAt(token.tok).text)

\* a closure that writes the comment's id into the `doc` ident
WithDocIdOnIdent(tt, id) ==
    IF tt.tt = "Subtree" /\ Len(tt.token_trees) >= 3 /\ tt.token_trees[1].tt = "Ident"
    THEN [tt EXCEPT !.token_trees[1].id = id]
    ELSE tt

\* the closure of convert_tokens that writes the comment's id into the
\* literal, the third child of the fabricated subtree
WithDocId(tt, id) ==
    IF tt.tt = "Subtree" /\ Len(tt.token_trees) >= 3 /\ tt.token_trees[3].tt = "Literal"
    THEN [tt EXCEPT !.token_trees[3].id = id]
    ELSE tt

----------------------------------------------------------------------------
(* convert_tokens. *)

\* the idx of the root StackEntry, !0: the slot of no delimiter pair
RootIdx == -1

StackEntry(subtree, idx, open_range) ==
    [subtree |-> subtree, idx |-> idx, open_range |-> open_range]

RootEntry == StackEntry(Subtree(NoDelimiter, <<>>), RootIdx, RangeAt(1, 0))

Last(st) == st[Len(st)]

\* a push that puts the token tree before the ones already there
PushFront(st, tt) == [st EXCEPT ![Len(st)].subtree.token_trees = <<tt>> \o @]

\* result.push(tt), result being the children of the innermost open subtree
Push(st, tt) == [st EXCEPT ![Len(st)].subtree.token_trees = Append(@, tt)]

\* result.extend(tts)
Extend(st, tts) == [st EXCEPT ![Len(st)].subtree.token_trees = @ \o tts]

\* a converter that lets `]` close a parenthesis
ExpectedBrackForParen(delim_kind) ==
    CASE delim_kind = "Parenthesis" -> "R_BRACK"
      [] delim_kind = "Brace" -> "R_CURLY"
      [] delim_kind = "Bracket" -> "R_BRACK"
      [] OTHER -> "NONE"

\* the closer convert_tokens expects for an open delimiter
Expected(delim_kind) ==
    CASE delim_kind = "Parenthesis" -> "R_PAREN"
      [] delim_kind = "Brace" -> "R_CURLY"
      [] delim_kind = "Bracket" -> "R_BRACK"
      [] OTHER -> "NONE"

\* the delimiter an opening token starts
OpenerDelim(kind) ==
    CASE kind = "L_PAREN" -> "Parenthesis"
      [] kind = "L_CURLY" -> "Brace"
      [] kind = "L_BRACK" -> "Bracket"
      [] OTHER -> "None"

\* a flush that writes `[` for a brace and `{` for a bracket
OpenerCharSwapped(delim_kind) ==
    CASE delim_kind = "Parenthesis" -> "("
      [] delim_kind = "Brace" -> "["
      [] delim_kind = "Bracket" -> "{"
      [] OTHER -> "?"

\* the character of a demoted opener
OpenerChar(delim_kind) ==
    CASE delim_kind = "Parenthesis" -> "("
      [] delim_kind = "Brace" -> "{"
      [] delim_kind = "Bracket" -> "["
      [] OTHER -> "?"

\* spacing that takes `_` for a punct that joins
SpacingJoinsUnderscore(c) ==
    LET next == Peek(c) IN
    IF IsSome(next)
       /\ ~is_trivia(Kind(Unwrap(next)))
       /\ is_punct(Kind(Unwrap(next)))
       /\ Kind(Unwrap(next)) \notin {"L_BRACK", "L_CURLY", "L_PAREN"}
    THEN "Joint"
    ELSE "Alone"

\* spacing that joins a punct to an opening delimiter
SpacingJoinsOpener(c) ==
    LET next == Peek(c) IN
    IF IsSome(next)
       /\ ~is_trivia(Kind(Unwrap(next)))
       /\ is_punct(Kind(Unwrap(next)))
       /\ Kind(Unwrap(next)) # "UNDERSCORE"
    THEN "Joint"
    ELSE "Alone"

\* the spacing of a punct, from the token after it
Spacing(c) ==
    LET next == Peek(c) IN
    IF IsSome(next)
       /\ ~is_trivia(Kind(Unwrap(next)))
       /\ is_punct(Kind(Unwrap(next)))
       /\ Kind(Unwrap(next)) \notin {"L_BRACK", "L_CURLY", "L_PAREN", "UNDERSCORE"}
    THEN "Joint"
    ELSE "Alone"

\* the branch one iteration of the loop takes for the bump `b`, with the
\* allocator `a` and the stack `st`; "panic" when the iteration panics: the
\* assertion on a real punct's range, a punct without a single character, a
\* range that starts before global_offset, a lifetime too short to split
Branch(b, a, st) ==
    IF ~b.some THEN "end"
    ELSE
      LET kind == Kind(b.token)
          shifts == CanShift(a, b.range)
          top == Last(st).subtree.delimiter
      IN
      IF kind = "COMMENT" THEN
          IF IsSome(ConvertDocComment(b.token))
          THEN (IF shifts THEN "doc" ELSE "panic")
          ELSE "comment"
      ELSE IF is_punct(kind) /\ kind # "UNDERSCORE" THEN
          IF SyntheticId(b.token) = None /\ RangeLen(b.range) # 1 THEN "panic"
          ELSE IF top.kind # "None" /\ kind = Expected(top.kind)
          THEN (IF shifts THEN "close" ELSE "panic")
          ELSE IF OpenerDelim(kind) # "None"
          THEN (IF shifts THEN "open" ELSE "panic")
          ELSE IF ToChar(b.token) = None THEN "panic"
          ELSE IF shifts THEN "punct" ELSE "panic"
      ELSE IF kind \in {"TRUE_KW", "FALSE_KW", "IDENT", "UNDERSCORE"} \/ is_keyword(kind)
      THEN (IF shifts THEN "ident" ELSE "panic")
      ELSE IF is_literal(kind)
      THEN (IF shifts THEN "literal" ELSE "panic")
      ELSE IF kind = "LIFETIME_IDENT"
      THEN (IF shifts /\ RangeLen(b.range) >= 1 /\ Len(ToText(b.token)) >= 1
            THEN "lifetime" ELSE "panic")
      ELSE "skip"

\* the loop takes branch `br` for the token `b` it bumps
Takes(b, br) == Branch(b, conv.id_alloc, stack) = br

\* `None => break`
ConvEnd ==
    /\ pc = "convert"
    /\ LET b == Bump(conv) IN
        /\ Takes(b, "end")
        /\ conv' = b.conv
    /\ pc' = "flush"
    /\ UNCHANGED <<input, stack, result, sink>>

ConvPanic ==
    /\ pc = "convert"
    /\ LET b == Bump(conv) IN
        /\ Takes(b, "panic")
        /\ conv' = b.conv
    /\ pc' = "panic"
    /\ UNCHANGED <<input, stack, result, sink>>

\* kind == COMMENT, a doc comment
ConvDocComment ==
    /\ pc = "convert"
    /\ LET b == Bump(conv) IN
        /\ Takes(b, "doc")
        /\ LET tokens == Unwrap(ConvertDocComment(b.token))
               al == Alloc(b.conv.id_alloc, b.range, SyntheticId(b.token))
           IN /\ conv' = [b.conv EXCEPT !.id_alloc = al.a]
              /\ stack' = Extend(stack, [i \in 1..Len(tokens) |-> WithDocId(tokens[i], al.id)])
    /\ UNCHANGED <<input, pc, result, sink>>

\* kind == COMMENT, any other comment
ConvComment ==
    /\ pc = "convert"
    /\ LET b == Bump(conv) IN
        /\ Takes(b, "comment")
        /\ conv' = b.conv
    /\ UNCHANGED <<input, stack, pc, result, sink>>

\* a closer that pops the innermost open subtree and leaves its pair as it
\* was opened
ConvCloseKeepsPair ==
    /\ pc = "convert"
    /\ LET b == Bump(conv) IN
        /\ Takes(b, "close")
        /\ conv' = b.conv
        /\ IF Len(stack) > 1
           THEN stack' = Push(SubSeq(stack, 1, Len(stack) - 1), Last(stack).subtree)
           ELSE stack' = stack
    /\ UNCHANGED <<input, pc, result, sink>>

\* a closer that matches the innermost open subtree
ConvClose ==
    /\ pc = "convert"
    /\ LET b == Bump(conv) IN
        /\ Takes(b, "close")
        /\ IF Len(stack) > 1
           THEN LET entry == Last(stack)
                    rest == SubSeq(stack, 1, Len(stack) - 1)
                IN /\ conv' = [b.conv EXCEPT
                                 !.id_alloc = CloseDelim(@, entry.idx, Some(b.range))]
                   /\ stack' = Push(rest, entry.subtree)
           ELSE /\ conv' = b.conv
                /\ stack' = stack
    /\ UNCHANGED <<input, pc, result, sink>>

\* an opener that pushes its entry with the slot of the root
ConvOpenRootSlot ==
    /\ pc = "convert"
    /\ LET b == Bump(conv) IN
        /\ Takes(b, "open")
        /\ LET od == OpenDelim(b.conv.id_alloc, b.range)
               subtree == Subtree(Delimiter(OpenerDelim(Kind(b.token)), od.id), <<>>)
           IN /\ conv' = [b.conv EXCEPT !.id_alloc = od.a]
              /\ stack' = Append(stack, StackEntry(subtree, RootIdx, b.range))
    /\ UNCHANGED <<input, pc, result, sink>>

\* `(`, `{`, `[`
ConvOpen ==
    /\ pc = "convert"
    /\ LET b == Bump(conv) IN
        /\ Takes(b, "open")
        /\ LET od == OpenDelim(b.conv.id_alloc, b.range)
               subtree == Subtree(Delimiter(OpenerDelim(Kind(b.token)), od.id), <<>>)
           IN /\ conv' = [b.conv EXCEPT !.id_alloc = od.a]
              /\ stack' = Append(stack, StackEntry(subtree, od.idx, b.range))
    /\ UNCHANGED <<input, pc, result, sink>>

\* the Punct leaf of any other punct
PunctLeaf(b) ==
    LET spacing == Spacing(b.conv)
        char == Unwrap(ToChar(b.token))
        al == Alloc(b.conv.id_alloc, b.range, SyntheticId(b.token))
    IN [a |-> al.a, tt |-> Punct(char, spacing, al.id)]

\* a loop that drops a closing delimiter nothing has opened
ConvPunctDropsCloser ==
    /\ pc = "convert"
    /\ LET b == Bump(conv) IN
        /\ Takes(b, "punct")
        /\ LET leaf == PunctLeaf(b)
           IN IF Kind(b.token) \in {"R_PAREN", "R_CURLY", "R_BRACK"}
              THEN /\ conv' = b.conv
                   /\ stack' = stack
              ELSE /\ conv' = [b.conv EXCEPT !.id_alloc = leaf.a]
                   /\ stack' = Push(stack, leaf.tt)
    /\ UNCHANGED <<input, pc, result, sink>>

ConvPunct ==
    /\ pc = "convert"
    /\ LET b == Bump(conv) IN
        /\ Takes(b, "punct")
        /\ LET leaf == PunctLeaf(b)
           IN /\ conv' = [b.conv EXCEPT !.id_alloc = leaf.a]
              /\ stack' = Push(stack, leaf.tt)
    /\ UNCHANGED <<input, pc, result, sink>>

\* make_leaf!(Ident)
ConvIdent ==
    /\ pc = "convert"
    /\ LET b == Bump(conv) IN
        /\ Takes(b, "ident")
        /\ LET al == Alloc(b.conv.id_alloc, b.range, SyntheticId(b.token))
           IN /\ conv' = [b.conv EXCEPT !.id_alloc = al.a]
              /\ stack' = Push(stack, Ident(ToText(b.token), al.id))
    /\ UNCHANGED <<input, pc, result, sink>>

\* make_leaf!(Literal)
ConvLiteral ==
    /\ pc = "convert"
    /\ LET b == Bump(conv) IN
        /\ Takes(b, "literal")
        /\ LET al == Alloc(b.conv.id_alloc, b.range, SyntheticId(b.token))
           IN /\ conv' = [b.conv EXCEPT !.id_alloc = al.a]
              /\ stack' = Push(stack, Literal(ToText(b.token), al.id))
    /\ UNCHANGED <<input, pc, result, sink>>

\* lifetime leaves that both carry the range of the whole token
LifetimeLeavesWholeRange(b) ==
    LET text == ToText(b.token)
        synth_id == SyntheticId(b.token)
        a1 == Alloc(b.conv.id_alloc, b.range, synth_id)
        a2 == Alloc(a1.a, b.range, synth_id)
    IN [a |-> a2.a,
        apostrophe |-> Punct("'", "Joint", a1.id),
        ident |-> Ident(SubSeq(text, 2, Len(text)), a2.id)]

\* the two leaves of a LIFETIME_IDENT
LifetimeLeaves(b) ==
    LET text == ToText(b.token)
        synth_id == SyntheticId(b.token)
        a1 == Alloc(b.conv.id_alloc, RangeAt(b.range.s, 1), synth_id)
        a2 == Alloc(a1.a, RangeAt(b.range.s + 1, RangeLen(b.range) - 1), synth_id)
    IN [a |-> a2.a,
        apostrophe |-> Punct("'", "Joint", a1.id),
        ident |-> Ident(SubSeq(text, 2, Len(text)), a2.id)]

ConvLifetime ==
    /\ pc = "convert"
    /\ LET b == Bump(conv) IN
        /\ Takes(b, "lifetime")
        /\ LET lt == LifetimeLeaves(b)
           IN /\ conv' = [b.conv EXCEPT !.id_alloc = lt.a]
              /\ stack' = Push(Push(stack, lt.apostrophe), lt.ident)
    /\ UNCHANGED <<input, pc, result, sink>>

\* `_ => continue`
ConvSkip ==
    /\ pc = "convert"
    /\ LET b == Bump(conv) IN
        /\ Takes(b, "skip")
        /\ conv' = b.conv
    /\ UNCHANGED <<input, stack, pc, result, sink>>

\* a flush that puts the demoted opener after the contents it opened
FlushOpenerLast ==
    /\ pc = "flush"
    /\ Len(stack) > 1
    /\ LET entry == Last(stack)
           rest == SubSeq(stack, 1, Len(stack) - 1)
           closed == CloseDelim(conv.id_alloc, entry.idx, None)
           al == Alloc(closed, entry.open_range, None)
           leaf == Punct(OpenerChar(entry.subtree.delimiter.kind), "Alone", al.id)
       IN /\ conv' = [conv EXCEPT !.id_alloc = al.a]
          /\ stack' = Push(Extend(rest, entry.subtree.token_trees), leaf)
          /\ pc' = pc
    /\ UNCHANGED <<input, result, sink>>

\* one round of `while let Some(entry) = stack.pop()`
Flush ==
    /\ pc = "flush"
    /\ Len(stack) > 1
    /\ LET entry == Last(stack)
           rest == SubSeq(stack, 1, Len(stack) - 1)
           closed == CloseDelim(conv.id_alloc, entry.idx, None)
           al == Alloc(closed, entry.open_range, None)
           leaf == Punct(OpenerChar(entry.subtree.delimiter.kind), "Alone", al.id)
       IN IF CanShift(closed, entry.open_range)
          THEN /\ conv' = [conv EXCEPT !.id_alloc = al.a]
               /\ stack' = Extend(Push(rest, leaf), entry.subtree.token_trees)
               /\ pc' = pc
          ELSE /\ conv' = [conv EXCEPT !.id_alloc = closed]
               /\ stack' = rest
               /\ pc' = "panic"
    /\ UNCHANGED <<input, result, sink>>

\* a return that takes the first child when it is a Subtree, whatever follows
ReturnedFirstChild(subtree) ==
    IF Len(subtree.token_trees) >= 1 /\ subtree.token_trees[1].tt = "Subtree"
    THEN subtree.token_trees[1]
    ELSE subtree

\* a return that never flattens the root
ReturnedRoot(subtree) == subtree

\* the subtree convert_tokens returns
Returned(subtree) ==
    IF Len(subtree.token_trees) = 1 /\ subtree.token_trees[1].tt = "Subtree"
    THEN subtree.token_trees[1]
    ELSE subtree

\* `stack.into_last().subtree`, and the return to the caller
Return ==
    /\ pc = "flush"
    /\ Len(stack) = 1
    /\ result' = Returned(stack[1].subtree)
    /\ pc' = "done"
    /\ UNCHANGED <<input, conv, stack, sink>>

----------------------------------------------------------------------------
(* tt::buffer: the token tree laid out for a Cursor.  A leaf is one entry, *)
(* a subtree is its Subtree entry, its children and its End entry; `end`   *)
(* is the index of a Subtree entry's End.                                  *)

RECURSIVE Flatten(_, _)
Flatten(tts, base) ==
    IF tts = <<>> THEN <<>>
    ELSE LET head == Head(tts)
             first == IF head.tt = "Subtree"
                      THEN LET inner == Flatten(head.token_trees, base + 1)
                           IN <<[t |-> "Subtree", delimiter |-> head.delimiter,
                                 end |-> base + Len(inner) + 2]>>
                              \o inner
                              \o <<[t |-> "End", delimiter |-> head.delimiter]>>
                      ELSE <<[t |-> "Leaf", leaf |-> head]>>
         IN first \o Flatten(Tail(tts), base + Len(first))

\* TokenBuffer::from_tokens for a subtree without delimiter,
\* TokenBuffer::from_subtree otherwise
TokenBuffer(tt) ==
    IF tt.delimiter.kind = "None" THEN Flatten(tt.token_trees, 0) ELSE Flatten(<<tt>>, 0)

\* Cursor::eof
CursorEof(lin, c) == c > Len(lin)

\* Cursor::bump
CursorBump(lin, c) ==
    IF c > Len(lin) THEN c
    ELSE IF lin[c].t = "Subtree" THEN lin[c].end + 1
    ELSE c + 1

\* Cursor::token_tree is a punct leaf
IsPunctLeaf(lin, c) == c <= Len(lin) /\ lin[c].t = "Leaf" /\ lin[c].leaf.tt = "Punct"

----------------------------------------------------------------------------
(* TtTreeSink. *)

\* TtTreeSink::new
NewSink(lin) ==
    [phase |-> "run", lin |-> lin, buf |-> <<>>, cursor |-> 1,
     open_delims |-> <<>>, text_pos |-> 0, inner |-> <<>>,
     token_map |-> EmptyTokenMap]

\* delim_to_str that writes the opener for the closer as well
DelimToStrOpener(d, closing) ==
    CASE d = "Parenthesis" -> "("
      [] d = "Brace" -> "{"
      [] d = "Bracket" -> "["

\* delim_to_str
DelimToStr(d, closing) ==
    CASE d = "Parenthesis" -> IF closing THEN ")" ELSE "("
      [] d = "Brace" -> IF closing THEN "}" ELSE "{"
      [] d = "Bracket" -> IF closing THEN "]" ELSE "["

\* the text of a leaf
LeafText(leaf) == IF leaf.tt = "Punct" THEN <<leaf.char>> ELSE leaf.text

\* FxHashMap::insert
MapPut(m, k, v) == [x \in (DOMAIN m) \cup {k} |-> IF x = k THEN v ELSE m[x]]

\* one round of the `for` loop of TtTreeSink::token, the cursor not at the
\* end: the inner `loop` runs until an entry yields text.  It panics
\* (phase "panic") when it runs past the last entry.
RECURSIVE Consume(_)
Consume(s) ==
    LET c == s.cursor IN
    IF c > Len(s.lin) THEN [s EXCEPT !.phase = "panic"]
    ELSE
      LET e == s.lin[c] IN
      IF e.t = "Leaf" THEN
          LET text == LeafText(e.leaf)
              range == RangeAt(s.text_pos, Len(text))
          IN [s EXCEPT !.token_map = MapInsert(@, e.leaf.id, range),
                       !.cursor = c + 1,
                       !.buf = @ \o text,
                       !.text_pos = @ + Len(text)]
      ELSE IF e.t = "Subtree" THEN
          IF e.delimiter.kind # "None"
          THEN [s EXCEPT !.cursor = c + 1,
                         !.open_delims = MapPut(@, e.delimiter.id, s.text_pos),
                         !.buf = Append(@, DelimToStr(e.delimiter.kind, FALSE)),
                         !.text_pos = @ + 1]
          ELSE Consume([s EXCEPT !.cursor = c + 1])
      ELSE
          IF e.delimiter.kind # "None"
          THEN LET d == e.delimiter
                   map == IF d.id \in DOMAIN s.open_delims
                          THEN MapInsertDelim(s.token_map, d.id,
                                              RangeAt(s.open_delims[d.id], 1),
                                              RangeAt(s.text_pos, 1)).map
                          ELSE s.token_map
               IN [s EXCEPT !.cursor = c + 1,
                            !.token_map = map,
                            !.buf = Append(@, DelimToStr(d.kind, TRUE)),
                            !.text_pos = @ + 1]
          ELSE Consume([s EXCEPT !.cursor = c + 1])

\* the `for _ in 0..n_tokens` loop: the sink afterwards, and `last`
RECURSIVE ConsumeN(_, _, _)
ConsumeN(s, last, n) ==
    IF n = 0 \/ s.phase = "panic" \/ CursorEof(s.lin, s.cursor)
    THEN [s |-> s, last |-> last]
    ELSE ConsumeN(Consume(s), s.cursor, n - 1)

\* whitespace after a `;` as after any other Alone punct
NeedsWhitespaceAfterSemicolon(lin, last) ==
    /\ IsPunctLeaf(lin, last)
    /\ IsPunctLeaf(lin, CursorBump(lin, last))
    /\ lin[last].leaf.spacing = "Alone"

\* "Add whitespace between adjoint puncts"
NeedsWhitespace(lin, last) ==
    /\ IsPunctLeaf(lin, last)
    /\ IsPunctLeaf(lin, CursorBump(lin, last))
    /\ lin[last].leaf.spacing = "Alone"
    /\ lin[last].leaf.char # ";"

\* a sink that consumes as many items for a lifetime as for any other token
SinkTokenLifetimeAsAsked(s, kind, n) ==
    LET run == ConsumeN(s, s.cursor, n)
        t == run.s
        committed == [t EXCEPT !.inner = Append(@, [kind |-> kind, text |-> t.buf]),
                               !.buf = <<>>]
    IN IF t.phase = "panic" THEN t
       ELSE IF NeedsWhitespace(t.lin, run.last)
       THEN [committed EXCEPT
                !.inner = Append(@, [kind |-> "WHITESPACE", text |-> <<" ">>]),
                !.text_pos = @ + 1]
       ELSE committed

\* a sink that does not count the space it inserts
SinkTokenSpaceUncounted(s, kind, n) ==
    LET n_tokens == IF kind = "LIFETIME_IDENT" THEN 2 ELSE n
        run == ConsumeN(s, s.cursor, n_tokens)
        t == run.s
        committed == [t EXCEPT !.inner = Append(@, [kind |-> kind, text |-> t.buf]),
                               !.buf = <<>>]
    IN IF t.phase = "panic" THEN t
       ELSE IF NeedsWhitespace(t.lin, run.last)
       THEN [committed EXCEPT
                !.inner = Append(@, [kind |-> "WHITESPACE", text |-> <<" ">>])]
       ELSE committed

\* TtTreeSink::token
SinkToken(s, kind, n) ==
    LET n_tokens == IF kind = "LIFETIME_IDENT" THEN 2 ELSE n
        run == ConsumeN(s, s.cursor, n_tokens)
        t == run.s
        committed == [t EXCEPT !.inner = Append(@, [kind |-> kind, text |-> t.buf]),
                               !.buf = <<>>]
    IN IF t.phase = "panic" THEN t
       ELSE IF NeedsWhitespace(t.lin, run.last)
       THEN [committed EXCEPT
                !.inner = Append(@, [kind |-> "WHITESPACE", text |-> <<" ">>]),
                !.text_pos = @ + 1]
       ELSE committed

\* the text of the syntax tree the builder holds
SinkText(s) == Concat([i \in 1..Len(s.inner) |-> s.inner[i].text])

----------------------------------------------------------------------------
(* The inputs the model draws. *)

\* the tokens the lexer yields: every punct is a single character
RawAlphabet ==
    {Tok("IDENT", <<"a">>), Tok("INT_NUMBER", <<"1">>), Tok("UNDERSCORE", <<"_">>),
     Tok("LIFETIME_IDENT", <<"'", "b">>),
     Tok("PLUS", <<"+">>), Tok("SEMICOLON", <<";">>),
     Tok("L_PAREN", <<"(">>), Tok("R_PAREN", <<")">>),
     Tok("L_CURLY", <<"{">>), Tok("R_BRACK", <<"]">>),
     Tok("WHITESPACE", <<"\n">>),
     Tok("COMMENT", <<"/", "/", "/", "d">>), Tok("COMMENT", <<"/", "/", "!", "d">>),
     Tok("COMMENT", <<"/", "/", "c">>),
     Tok("SHEBANG", <<"#", "!", "s">>)}

\* the tokens of a syntax tree: the parser has glued `::`
CstAlphabet ==
    {Tok("IDENT", <<"a">>), Tok("COLON2", <<":", ":">>),
     Tok("L_PAREN", <<"(">>), Tok("R_PAREN", <<")">>),
     Tok("WHITESPACE", <<"\n">>), Tok("COMMENT", <<"/", "/", "/", "d">>)}

\* two tokens the lexer would have read as one, or a line comment or a
\* shebang that does not end at a line break
WordLike(t) == t.kind \in {"IDENT", "INT_NUMBER", "UNDERSCORE", "LIFETIME_IDENT"}
Collide(t, u) ==
    \/ WordLike(t) /\ u.kind \in {"IDENT", "INT_NUMBER", "UNDERSCORE"}
    \/ t.kind = "LIFETIME_IDENT" /\ u.kind = "LIFETIME_IDENT"
    \/ t.kind = "WHITESPACE" /\ u.kind = "WHITESPACE"
    \/ t.kind \in {"COMMENT", "SHEBANG"} /\ u.kind # "WHITESPACE"

\* token sequences a lexer can produce: a shebang is the first token only
Lexable(toks) ==
    /\ \A i \in 1..(Len(toks) - 1) : ~Collide(toks[i], toks[i + 1])
    /\ \A i \in 2..Len(toks) : toks[i].kind # "SHEBANG"

\* the tokens with their byte ranges, the first starting at `start`
RECURSIVE WithRanges(_, _)
WithRanges(toks, start) ==
    IF toks = <<>> THEN <<>>
    ELSE <<[kind |-> Head(toks).kind, text |-> Head(toks).text,
            range |-> RangeAt(start, Len(Head(toks).text))]>>
         \o WithRanges(Tail(toks), start + Len(Head(toks).text))

TextLen(toks) == Len(Concat([i \in 1..Len(toks) |-> toks[i].text]))

\* parse_to_token_tree on a lexed text
RawInput(toks) ==
    [mode |-> "raw", lexed |-> WithRanges(toks, 0), events |-> <<>>,
     range |-> Range(0, TextLen(toks)), next_id |-> 0,
     replace |-> <<>>, append |-> <<>>]

\* the nodes of a syntax tree: the root, and one inner node
RootNode == 1
InnerNode == 2

\* the inner node's tokens, first to last (from 1); <<0, 0>> when the tree
\* has no inner node
Shapes(n) == {<<0, 0>>} \cup {ij \in (1..n) \X (1..n) : ij[1] <= ij[2]}

\* the preorder events of the tree
Events(n, shape) ==
    <<EnterNode(RootNode)>>
    \o Concat([i \in 1..n |->
          (IF shape[1] = i THEN <<EnterNode(InnerNode)>> ELSE <<>>)
          \o <<EnterToken(i - 1), LeaveToken(i - 1)>>
          \o (IF shape[2] = i THEN <<LeaveNode(InnerNode)>> ELSE <<>>)])
    \o <<LeaveNode(RootNode)>>

\* the lists of synthetic tokens (kind and text) a caller maps a node to
SynLists ==
    {<<>>,
     <<Tok("IDENT", <<"x">>)>>,
     <<Tok("COLON2", <<":", ":">>)>>,
     <<Tok("L_PAREN", <<"(">>), Tok("IDENT", <<"x">>)>>,
     <<Tok("IDENT", <<"x">>), Tok("R_PAREN", <<")">>)>>,
     <<Tok("COMMENT", <<"/", "/", "/", "s">>)>>}

\* the entry of `node` in replace (which = 0) or in append (which = 1)
SynEntry(list, range, node, which) ==
    [i \in 1..Len(list) |->
        SyntheticToken(list[i].kind, list[i].text, range, 10 * node + 5 * which + i)]

SynMap(keys, list, range, which) ==
    [n \in keys |-> SynEntry(list, range, n, which)]

\* syntax_node_to_token_tree_with_modifications on one tree; the caller
\* gives its synthetic tokens the empty range at the end of the node, or a
\* byte after the node
CstInput(toks, shape, rk, ak, list, at_end) ==
    LET node_range == Range(NodeStart, NodeStart + TextLen(toks))
        range == IF at_end THEN RangeAt(node_range.e, 0) ELSE RangeAt(node_range.e + 1, 1)
    IN [mode |-> "cst", lexed |-> WithRanges(toks, NodeStart),
        events |-> Events(Len(toks), shape),
        range |-> node_range,
        next_id |-> FirstId,
        replace |-> SynMap(rk, list, range, 0),
        append |-> SynMap(ak, list, range, 1)]

\* the keys of replace and append: nodes of the tree
KeySets(shape) == SUBSET (IF shape = <<0, 0>> THEN {RootNode} ELSE {RootNode, InnerNode})

NoSink == [phase |-> "idle"]

\* RawConvertor as parse_to_token_tree builds it, Convertor as Convertor::new
InitConv(in) ==
    IF in.mode = "raw"
    THEN [pos |-> 0, id_alloc |-> NewIdAlloc(EmptyTokenMap, 0, 0)]
    ELSE NewConvertor(in.range, in.range.s, EmptyTokenMap, in.next_id, in.replace, in.append)

Start(in) ==
    /\ input = in
    /\ conv = InitConv(in)
    /\ stack = <<RootEntry>>
    /\ pc = "convert"
    /\ result = Subtree(NoDelimiter, <<>>)
    /\ sink = NoSink

InitRaw ==
    \E toks \in SeqUpTo(RawAlphabet, MaxLen) :
        Lexable(toks) /\ Start(RawInput(toks))

InitCst ==
    \E toks \in SeqUpTo(CstAlphabet, MaxCstLen) :
      \E shape \in Shapes(Len(toks)) :
        \E rk \in KeySets(shape), ak \in KeySets(shape), list \in SynLists, at_end \in BOOLEAN :
            Start(CstInput(toks, shape, rk, ak, list, at_end))

Init == InitRaw \/ InitCst

Next ==
    \/ ConvEnd
    \/ ConvPanic
    \/ ConvDocComment
    \/ ConvComment
    \/ ConvClose
    \/ ConvOpen
    \/ ConvPunct
    \/ ConvIdent
    \/ ConvLiteral
    \/ ConvLifetime
    \/ ConvSkip
    \/ Flush
    \/ Return

Spec == Init /\ [][Next]_vars

----------------------------------------------------------------------------
(* token_tree_to_syntax_node on the subtree a conversion returned. *)

\* the Step::Token events the parser emits at entry c of the buffer:
\* to_parser_input turns an apostrophe and the ident after it into one
\* LIFETIME_IDENT token, and the parser may glue a run of joint puncts to
\* the punct after it
ParserEmits(lin, c, kind, n) ==
    IF IsPunctLeaf(lin, c) /\ lin[c].leaf.char = "'"
       /\ c < Len(lin) /\ lin[c + 1].t = "Leaf" /\ lin[c + 1].leaf.tt = "Ident"
    THEN kind = "LIFETIME_IDENT" /\ n = 1
    ELSE /\ kind = "TOKEN"
         /\ \A k \in 0..(n - 2) :
                /\ IsPunctLeaf(lin, c + k) /\ lin[c + k].leaf.spacing = "Joint"
                /\ IsPunctLeaf(lin, c + k + 1)

\* TtTreeSink::new(buffer.begin())
SinkStart ==
    /\ pc = "done"
    /\ sink' = NewSink(TokenBuffer(result))
    /\ pc' = "sink"
    /\ UNCHANGED <<input, conv, stack, result>>

\* parser::Step::Token { kind, n_input_tokens }
SinkStep ==
    /\ pc = "sink"
    /\ ~CursorEof(sink.lin, sink.cursor)
    /\ \E kind \in {"TOKEN", "LIFETIME_IDENT"}, n \in 1..MaxStep :
        /\ ParserEmits(sink.lin, sink.cursor, kind, n)
        /\ sink' = SinkToken(sink, kind, n)
    /\ UNCHANGED <<input, conv, stack, pc, result>>

\* tree_sink.finish(), the parser having consumed its input
SinkFinish ==
    /\ pc = "sink"
    /\ CursorEof(sink.lin, sink.cursor)
    /\ pc' = "finished"
    /\ UNCHANGED <<input, conv, stack, result, sink>>

\* syntax_node_to_token_tree on the tree of a parsed text: no synthetic tokens
InitPlainCst ==
    \E toks \in SeqUpTo(CstAlphabet, MaxCstLen) :
      \E shape \in Shapes(Len(toks)) :
        Lexable(toks) /\ Start(CstInput(toks, shape, {}, {}, <<>>, TRUE))

InitRoundTrip == InitRaw \/ InitPlainCst

NextRoundTrip ==
    \/ ConvEnd
    \/ ConvDocComment
    \/ ConvComment
    \/ ConvClose
    \/ ConvOpen
    \/ ConvPunct
    \/ ConvIdent
    \/ ConvLiteral
    \/ ConvLifetime
    \/ ConvSkip
    \/ Flush
    \/ Return
    \/ SinkStart
    \/ SinkStep
    \/ SinkFinish

\* a conversion followed by the replay of its result
SpecRoundTrip == InitRoundTrip /\ [][NextRoundTrip]_vars

----------------------------------------------------------------------------
(* What the claims speak about. *)

\* a subtree and every subtree below it
RECURSIVE Subtrees(_)
Subtrees(t) ==
    {t} \cup UNION {Subtrees(t.token_trees[i]) :
                      i \in {j \in 1..Len(t.token_trees) : t.token_trees[j].tt = "Subtree"}}

\* the converted text, and the bytes of a range relative to its start
SourceText == Concat([i \in 1..Len(input.lexed) |-> input.lexed[i].text])
Slice(text, r) == SubSeq(text, r.s + 1, r.e)

IsJoint(tt) == tt.tt = "Punct" /\ tt.spacing = "Joint"

----------------------------------------------------------------------------
(* C1: in every state of either token source, peek returns exactly the     *)
(* token the next bump returns (and so the same kind and character), and   *)
(* returns nothing exactly when the next bump returns nothing.  Peek is a  *)
(* function of the source's state alone, so it changes nothing and two     *)
(* peeks in a row agree.                                                   *)
C1_PeekIsNextBump ==
    pc \in {"convert", "flush", "done"} =>
        LET p == Peek(conv)
            b == Bump(conv)
        IN /\ IsSome(p) <=> b.some
           /\ IsSome(p) =>
                /\ Unwrap(p) = b.token
                /\ Kind(Unwrap(p)) = Kind(b.token)
                /\ ToChar(Unwrap(p)) = ToChar(b.token)

\* the walker is inside a split `::` and a synthetic token waits behind it
C1_Witness ==
    /\ input.mode = "cst"
    /\ pc = "convert"
    /\ IsSome(conv.punct_offset)
    /\ Peek(conv) = Some(Punch(Unwrap(conv.punct_offset).tok, 1))
    /\ conv.current_synthetic # <<>>

----------------------------------------------------------------------------
(* C2: the Punct leaf convert_tokens pushes for a punct that is no         *)
(* delimiter is Joint exactly when peek, at that moment, returns a token   *)
(* that is not trivia, is a punct and is none of `[`, `{`, `(`, `_`; it is *)
(* Alone otherwise, the end of the input included.                         *)
JointExpected(c) ==
    /\ IsSome(Peek(c))
    /\ LET kind == Kind(Unwrap(Peek(c)))
       IN /\ ~is_trivia(kind)
          /\ is_punct(kind)
          /\ kind \notin {"L_BRACK", "L_CURLY", "L_PAREN", "UNDERSCORE"}

C2_SpacingFromPeek ==
    [][ConvPunct =>
        LET children == Last(stack').subtree.token_trees
            leaf == children[Len(children)]
        IN /\ leaf.tt = "Punct"
           /\ leaf.spacing = (IF JointExpected(conv') THEN "Joint" ELSE "Alone")]_vars

\* a Joint `+` was just pushed
C2_Witness ==
    /\ pc = "convert"
    /\ Last(stack).subtree.token_trees # <<>>
    /\ LET children == Last(stack).subtree.token_trees
           leaf == children[Len(children)]
       IN leaf.tt = "Punct" /\ leaf.char = "+" /\ leaf.spacing = "Joint"

----------------------------------------------------------------------------
(* C3, as claimed: in every child list of the returned subtree a Joint     *)
(* punct is followed by a punct, so that each run of Joint puncts ends in  *)
(* one Alone punct.                                                        *)
JointThenPunct(t) ==
    \A i \in 1..Len(t.token_trees) :
        IsJoint(t.token_trees[i]) =>
            i < Len(t.token_trees) /\ t.token_trees[i + 1].tt = "Punct"

C3_Claimed ==
    pc = "done" => \A t \in Subtrees(result) : JointThenPunct(t)

(* C3, amended: a Joint punct is followed by a punct, or it is the         *)
(* apostrophe of a lifetime and is followed by the lifetime's ident, or it *)
(* is the last child of a delimited subtree (the token after it was the    *)
(* subtree's closer).  It is never followed by a literal or a subtree and  *)
(* never ends the root.                                                    *)
JointRunEnds(t) ==
    \A i \in 1..Len(t.token_trees) :
        IsJoint(t.token_trees[i]) =>
            \/ i < Len(t.token_trees) /\ t.token_trees[i + 1].tt = "Punct"
            \/ /\ t.token_trees[i].char = "'"
               /\ i < Len(t.token_trees) /\ t.token_trees[i + 1].tt = "Ident"
            \/ i = Len(t.token_trees) /\ t.delimiter.kind # "None"

C3_JointRuns ==
    pc = "done" => \A t \in Subtrees(result) : JointRunEnds(t)

\* a Joint punct closes a delimited subtree of the result
C3_Witness ==
    /\ pc = "done"
    /\ \E t \in Subtrees(result) :
        /\ t.delimiter.kind # "None"
        /\ t.token_trees # <<>>
        /\ IsJoint(t.token_trees[Len(t.token_trees)])
        /\ t.token_trees[Len(t.token_trees)].char # "'"

----------------------------------------------------------------------------
(* C4, as claimed: the subtree a conversion returns has no delimiter.      *)
C4_Claimed == pc = "done" => result.delimiter.kind = "None"

(* C4, amended: the returned subtree has no delimiter, except when the     *)
(* root's child list is exactly one subtree: then that subtree, with its   *)
(* delimiter, is returned in place of the root.                            *)
C4_RootDelimiter ==
    pc = "done" =>
        LET root == stack[1].subtree
            single == Len(root.token_trees) = 1 /\ root.token_trees[1].tt = "Subtree"
        IN /\ root.delimiter.kind = "None"
           /\ single => result = root.token_trees[1] /\ result.delimiter.kind # "None"
           /\ ~single => result = root /\ result.delimiter.kind = "None"

C4_Witness == pc = "done" /\ result.delimiter.kind = "Parenthesis"


----------------------------------------------------------------------------
(* C5, as claimed: when a conversion with synthetic tokens has finished,   *)
(* the walker has removed every entry of the caller's replace and append   *)
(* maps: both are empty.                                                   *)
C5_Claimed ==
    (pc = "done" /\ input.mode = "cst") =>
        DOMAIN conv.replace = {} /\ DOMAIN conv.append = {}

----------------------------------------------------------------------------
(* The ids a TokenMap holds, relation by relation, in insertion order. *)
Ids(rel) == [i \in 1..Len(rel) |-> rel[i].id]
IdSet(rel) == {rel[i].id : i \in 1..Len(rel)}
StrictlyIncreasing(s) == \A i, j \in 1..Len(s) : i < j => s[i] < s[j]

\* every mint took next_id and advanced it by one: the ids of each relation
\* grow with the order of insertion and all lie in [first id, next_id)
MintedInOrder(a) ==
    /\ StrictlyIncreasing(Ids(a.map.tokens))
    /\ StrictlyIncreasing(Ids(a.map.delims))
    /\ StrictlyIncreasing(Ids(a.map.synthetic))
    /\ \A id \in IdSet(a.map.tokens) \cup IdSet(a.map.delims) \cup IdSet(a.map.synthetic) :
        input.next_id <= id /\ id < a.next_id

----------------------------------------------------------------------------
(* C7, as claimed: after a conversion every id without a synthetic-origin  *)
(* entry maps to a range (of a token, or of the two delimiters of a pair)  *)
(* that lies within the converted input.                                   *)
InInput(r) == 0 <= r.s /\ r.s <= r.e /\ r.e <= Len(SourceText)

C7_Claimed ==
    pc = "done" =>
        LET m == conv.id_alloc.map IN
        /\ \A i \in 1..Len(m.tokens) :
            m.tokens[i].id \notin IdSet(m.synthetic) => InInput(m.tokens[i].range)
        /\ \A i \in 1..Len(m.delims) :
            m.delims[i].id \notin IdSet(m.synthetic) =>
                InInput(m.delims[i].open) /\ InInput(m.delims[i].close)


\* a conversion of any input, synthetic tokens included, followed by the
\* replay of its result
NextReplay ==
    \/ Next
    \/ SinkStart
    \/ SinkStep
    \/ SinkFinish

SpecReplay == Init /\ [][NextReplay]_vars

----------------------------------------------------------------------------
(* Delimiter pairs of a TokenMap against a text. *)

\* the character a one-byte range holds, "" for any other range
CharAt(text, r) ==
    IF r.e = r.s + 1 /\ 0 <= r.s /\ r.e <= Len(text) THEN text[r.e] ELSE ""

DelimChars(kind) ==
    CASE kind = "Parenthesis" -> <<"(", ")">>
      [] kind = "Brace" -> <<"{", "}">>
      [] kind = "Bracket" -> <<"[", "]">>
      [] OTHER -> <<"", "">>

\* the pair lies in order and sits on the delimiters of a subtree that
\* carries its id
PairMatches(text, pair) ==
    /\ pair.open.e <= pair.close.s
    /\ pair.open.s <= pair.close.s
    /\ \E t \in Subtrees(result) :
        /\ t.delimiter.kind # "None"
        /\ t.delimiter.id = pair.id
        /\ CharAt(text, pair.open) = DelimChars(t.delimiter.kind)[1]
        /\ CharAt(text, pair.close) = DelimChars(t.delimiter.kind)[2]

\* the relative range is that of a token of the input
IsInputToken(r) ==
    \E i \in 1..Len(input.lexed) :
        input.lexed[i].range = Range(r.s + conv.id_alloc.global_offset,
                                     r.e + conv.id_alloc.global_offset)

----------------------------------------------------------------------------
(* The text of a replayed tree against the text that was converted. *)

\* the tokens of the rebuilt tree but for the spaces the sink put in: the
\* converter drops the whitespace of the source, so every WHITESPACE token of
\* the rebuilt tree is the sink's
Inserted(i) == sink.inner[i].kind = "WHITESPACE"

RebuiltText ==
    Concat([i \in 1..Len(sink.inner) |->
        IF Inserted(i) THEN <<>> ELSE sink.inner[i].text])

\* what a token of the source contributes to the token tree: a doc comment
\* its attribute, whitespace, any other comment and a shebang nothing, every
\* other token its own text
ConvertedText(tok) ==
    IF tok.kind = "COMMENT" THEN
        (CASE CommentKind(tok.text).doc = "Outer" ->
                  <<"#", "[", "d", "o", "c", "=">> \o DocCommentText(tok.text) \o <<"]">>
           [] CommentKind(tok.text).doc = "Inner" ->
                  <<"#", "!", "[", "d", "o", "c", "=">> \o DocCommentText(tok.text) \o <<"]">>
           [] OTHER -> <<>>)
    ELSE IF tok.kind \in {"WHITESPACE", "SHEBANG"} THEN <<>>
    ELSE tok.text

PunctChars == {"+", ";", ":", "(", ")", "{", "}", "[", "]", "#", "!", "=", "'"}

(* C9, as claimed: the text of the tree rebuilt from the token tree of a   *)
(* source is the source, but for single spaces the sink inserts between    *)
(* puncts.                                                                 *)
C9_Claimed == pc = "finished" => RebuiltText = SourceText

(* C9, amended: the text of the rebuilt tree is the source without its     *)
(* whitespace and its comments, each doc comment replaced by its attribute *)
(* #[doc = "..."] or #![doc = "..."], but for single spaces the sink       *)
(* inserts between two puncts.                                             *)
C9_RoundTrip ==
    pc = "finished" =>
        /\ RebuiltText =
             Concat([i \in 1..Len(input.lexed) |-> ConvertedText(input.lexed[i])])
        /\ \A i \in 1..Len(sink.inner) :
            Inserted(i) =>
                /\ sink.inner[i].text = <<" ">>
                /\ 1 < i /\ i < Len(sink.inner)
                /\ LET before == sink.inner[i - 1].text
                       after == sink.inner[i + 1].text
                   IN /\ before # <<>> /\ before[Len(before)] \in PunctChars \ {";"}
                      /\ after # <<>> /\ after[1] \in PunctChars

\* a source with whitespace, rebuilt with a space of the sink's
C9_Witness ==
    /\ pc = "finished"
    /\ \E i \in 1..Len(input.lexed) : input.lexed[i].kind = "WHITESPACE"
    /\ \E i \in 1..Len(sink.inner) : Inserted(i)

----------------------------------------------------------------------------
(* The range the sink gives an id against the range the converter gave it. *)

\* the entries of a relation of a TokenMap that carry the id
EntriesOf(rel, id) == {i \in 1..Len(rel) : rel[i].id = id}

\* the converter's range is that of a doc comment of the source
IsDocComment(r) ==
    \E i \in 1..Len(input.lexed) :
        /\ input.lexed[i].kind = "COMMENT"
        /\ input.lexed[i].range = Range(r.s + conv.id_alloc.global_offset,
                                        r.e + conv.id_alloc.global_offset)

\* every id the converter minted for a leaf has one range in the sink's map
EveryLeafIdReplayed ==
    \A i \in 1..Len(conv.id_alloc.map.tokens) :
        Cardinality(EntriesOf(sink.token_map.tokens, conv.id_alloc.map.tokens[i].id)) = 1

(* C10, as claimed: the sink maps every leaf id of the converter to a      *)
(* range of the rebuilt text that holds the text of the source token the   *)
(* id was minted for.                                                      *)
C10_Claimed ==
    pc = "finished" =>
        /\ EveryLeafIdReplayed
        /\ \A i \in 1..Len(conv.id_alloc.map.tokens) :
            \A j \in EntriesOf(sink.token_map.tokens, conv.id_alloc.map.tokens[i].id) :
                Slice(SinkText(sink), sink.token_map.tokens[j].range)
                    = Slice(SourceText, conv.id_alloc.map.tokens[i].range)

(* C10, amended: the same of every leaf id but that of a doc comment,      *)
(* which the sink maps to the range of the string literal made of the      *)
(* comment's body, quoted and escaped.                                     *)
C10_IdStability ==
    pc = "finished" =>
        /\ EveryLeafIdReplayed
        /\ \A i \in 1..Len(conv.id_alloc.map.tokens) :
            \A j \in EntriesOf(sink.token_map.tokens, conv.id_alloc.map.tokens[i].id) :
                LET source == Slice(SourceText, conv.id_alloc.map.tokens[i].range)
                IN Slice(SinkText(sink), sink.token_map.tokens[j].range)
                    = (IF IsDocComment(conv.id_alloc.map.tokens[i].range)
                       THEN DocCommentText(source)
                       ELSE source)

\* a replay that put a space in front of a leaf with an id, and a doc
\* comment among the tokens
C10_Witness ==
    /\ pc = "finished"
    /\ \E i \in 1..Len(sink.inner) : Inserted(i)
    /\ \E i \in 1..Len(conv.id_alloc.map.tokens) :
        IsDocComment(conv.id_alloc.map.tokens[i].range)

----------------------------------------------------------------------------
(* The end-of-stream repair. *)

\* the delimited subtrees of the stack's entries, the open ones included
StackSubtrees(st) ==
    UNION {Subtrees(st[i].subtree) : i \in 1..Len(st)}

(* C11: when the token stream has ended with the stack deeper than 1, each *)
(* round of the repair dissolves the innermost open subtree: the parent    *)
(* keeps its children, then gets one Alone Punct leaf with the `(`, `{` or *)
(* `[` of the subtree's delimiter, then the subtree's children in order;   *)
(* the stack is one entry shorter and no subtree of the stack carries the  *)
(* dissolved delimiter.                                                    *)
C11_FlushDemotes ==
    [][(pc = "flush" /\ Len(stack) > 1) =>
        LET n == Len(stack)
            open == stack[n].subtree
            parent == stack[n - 1].subtree.token_trees
            after == stack'[n - 1].subtree.token_trees
            k == Len(parent)
        IN /\ pc' = "flush"
           /\ Len(stack') = n - 1
           /\ SubSeq(stack', 1, n - 2) = SubSeq(stack, 1, n - 2)
           /\ stack'[n - 1].subtree.delimiter = stack[n - 1].subtree.delimiter
           /\ Len(after) = k + 1 + Len(open.token_trees)
           /\ SubSeq(after, 1, k) = parent
           /\ after[k + 1].tt = "Punct"
           /\ after[k + 1].spacing = "Alone"
           /\ after[k + 1].char = DelimChars(open.delimiter.kind)[1]
           /\ after[k + 1].char \in {"(", "{", "["}
           /\ SubSeq(after, k + 2, Len(after)) = open.token_trees
           /\ \A t \in StackSubtrees(stack') :
                t.delimiter.kind = "None" \/ t.delimiter.id # open.delimiter.id]_vars

\* `{ ( a` has been converted: the root holds `{`, `(` and `a`
C11_Witness ==
    /\ pc = "done"
    /\ Len(result.token_trees) = 3
    /\ \A i \in 1..2 : result.token_trees[i].tt = "Punct"
    /\ result.token_trees[1].char = "{"
    /\ result.token_trees[2].char = "("
    /\ result.token_trees[3].tt = "Ident"

\* the delimiter pairs and the token ranges of the converter's TokenMap
Delims == conv.id_alloc.map.delims
Tokens == conv.id_alloc.map.tokens

\* the range an absolute range is recorded as
Relative(r) == RangeSub(r, conv.id_alloc.global_offset)

(* C12, as claimed: when the repair dissolves an opener that was never     *)
(* closed, the TokenMap still holds a delimiter pair for the opener's id   *)
(* with the opener's range as its open range.                              *)
C12_Claimed ==
    [][(pc = "flush" /\ Len(stack) > 1) =>
        \E i \in 1..Len(Delims') :
            /\ Delims'[i].id = Last(stack).subtree.delimiter.id
            /\ Delims'[i].open = Relative(Last(stack).open_range)]_vars

(* C12: an opener that is never closed has its delimiter pair until the    *)
(* end of the stream; the repair removes that pair and leaves every other  *)
(* pair alone, and records the opener's range in the token relation under  *)
(* the fresh id of the demoted leaf.  When the conversion returns, every   *)
(* pair of the TokenMap is the pair of a delimited subtree of the result.  *)
C12_UnclosedPairRemoved ==
    /\ [][(pc = "flush" /\ Len(stack) > 1) =>
            LET entry == Last(stack)
                id == entry.subtree.delimiter.id
                k == Len(stack[Len(stack) - 1].subtree.token_trees)
                leaf == stack'[Len(stack) - 1].subtree.token_trees[k + 1]
            IN /\ \E i \in 1..Len(Delims) :
                    /\ Delims[i].id = id
                    /\ Delims[i].open = Relative(entry.open_range)
                    /\ Delims' = RemoveAt(Delims, i)
               /\ id \notin IdSet(Delims')
               /\ Tokens' = Append(Tokens,
                      [id |-> conv.id_alloc.next_id, range |-> Relative(entry.open_range)])
               /\ leaf.id = conv.id_alloc.next_id
               /\ leaf.id > id]_vars
    /\ [](pc = "done" =>
            \A i \in 1..Len(Delims) :
                \E t \in Subtrees(result) :
                    t.delimiter.kind # "None" /\ t.delimiter.id = Delims[i].id)

\* a syntax node with an opener that is never closed has been converted:
\* the opener is a leaf, two ids were minted and no pair is left
C12_Witness ==
    /\ pc = "done"
    /\ input.mode = "cst"
    /\ input.replace = <<>> /\ input.append = <<>>
    /\ \E i \in 1..Len(result.token_trees) :
          /\ result.token_trees[i].tt = "Punct"
          /\ result.token_trees[i].char = "("
          /\ result.token_trees[i].id = FirstId + 1
    /\ Delims = <<>>
    /\ conv.id_alloc.next_id = FirstId + 2

----------------------------------------------------------------------------
(* Closing delimiters nothing has opened. *)

CloserKinds == {"R_PAREN", "R_CURLY", "R_BRACK"}

CloserChar(kind) ==
    CASE kind = "R_PAREN" -> ")"
      [] kind = "R_CURLY" -> "}"
      [] kind = "R_BRACK" -> "]"
      [] OTHER -> ""

\* the leaves of a subtree, in order
RECURSIVE LeavesOf(_)
LeavesOf(t) ==
    Concat([i \in 1..Len(t.token_trees) |->
              IF t.token_trees[i].tt = "Subtree"
              THEN LeavesOf(t.token_trees[i])
              ELSE <<t.token_trees[i]>>])

IsCloserLeaf(leaf) == leaf.tt = "Punct" /\ leaf.char \in {")", "}", "]"}

\* how many closers a lexed text holds, how many closer leaves a sequence
CloserTokens(toks) == Cardinality({i \in 1..Len(toks) : toks[i].kind \in CloserKinds})
CloserLeaves(leaves) == Cardinality({i \in 1..Len(leaves) : IsCloserLeaf(leaves[i])})

IsClosed(t) == t.delimiter.kind # "None" /\ t.delimiter.id # Unspecified

(* C13, as claimed: a closing delimiter that does not match the innermost  *)
(* open subtree is dropped, so the tree the conversion returns has no leaf *)
(* that is a closing delimiter.                                            *)
C13_Claimed ==
    pc = "done" =>
        \A t \in Subtrees(result) :
            \A i \in 1..Len(t.token_trees) :
                t.token_trees[i].tt = "Subtree" \/ ~IsCloserLeaf(t.token_trees[i])

(* C13: a closing delimiter that does not match the delimiter of the       *)
(* innermost open subtree, or that arrives when only the root is open, is  *)
(* kept: the converter appends one Punct leaf with the closer's character  *)
(* and a fresh id to the innermost open subtree, and leaves the stack as   *)
(* deep as it was.  After a conversion of a lexed text every closer of the *)
(* text is either such a leaf of the result or has closed a subtree of it. *)
C13_UnmatchedCloserKept ==
    /\ [][LET b == Bump(conv)
              kind == Kind(b.token)
              n == Len(stack)
              children == stack[n].subtree.token_trees
              after == stack'[n].subtree.token_trees
          IN (/\ pc = "convert"
              /\ b.some
              /\ kind \in CloserKinds
              /\ kind # Expected(stack[n].subtree.delimiter.kind)) =>
                /\ pc' = "convert"
                /\ Len(stack') = n
                /\ SubSeq(stack', 1, n - 1) = SubSeq(stack, 1, n - 1)
                /\ Len(after) = Len(children) + 1
                /\ SubSeq(after, 1, Len(children)) = children
                /\ after[Len(after)].tt = "Punct"
                /\ after[Len(after)].char = CloserChar(kind)
                /\ after[Len(after)].id = conv.id_alloc.next_id]_vars
    /\ [](pc = "done" /\ input.mode = "raw" =>
            CloserTokens(input.lexed)
                = CloserLeaves(LeavesOf(result))
                  + Cardinality({t \in Subtrees(result) : IsClosed(t)}))

\* `( ]` has been converted: the root holds the demoted `(` and the `]`
C13_Witness ==
    /\ pc = "done"
    /\ Len(result.token_trees) = 2
    /\ \A i \in 1..2 : result.token_trees[i].tt = "Punct"
    /\ result.token_trees[1].char = "("
    /\ result.token_trees[2].char = "]"

----------------------------------------------------------------------------
(* The source `{ ( ]`. *)

NonTrivia(tok) == ~is_trivia(tok.kind)

\* the non-trivia tokens of the source are exactly `{`, `(`, `]`, and no
\* comment of it is a doc comment
IsCurlyParenBrack ==
    /\ LET toks == SelectSeq(input.lexed, NonTrivia)
       IN [i \in 1..Len(toks) |-> toks[i].kind] = <<"L_CURLY", "L_PAREN", "R_BRACK">>
    /\ \A i \in 1..Len(input.lexed) :
          input.lexed[i].kind = "COMMENT" => CommentKind(input.lexed[i].text).doc = "None"

(* C14, as claimed: converting `{ ( ]` yields a tree with a Brace subtree  *)
(* that contains a Parenthesis subtree followed by an Alone `]` punct.     *)
C14_Claimed ==
    pc = "done" /\ IsCurlyParenBrack =>
        \E t \in Subtrees(result) :
            /\ t.delimiter.kind = "Brace"
            /\ \E i \in 1..(Len(t.token_trees) - 1) :
                /\ t.token_trees[i].tt = "Subtree"
                /\ t.token_trees[i].delimiter.kind = "Parenthesis"
                /\ t.token_trees[i + 1].tt = "Punct"
                /\ t.token_trees[i + 1].char = "]"
                /\ t.token_trees[i + 1].spacing = "Alone"

(* C14: converting a source whose non-trivia tokens are exactly `{`, `(`,  *)
(* `]` yields the root subtree without delimiter whose children are three  *)
(* Alone Punct leaves `{`, `(`, `]` and no subtree: both openers were      *)
(* demoted, the `]` was minted third and the openers after it, innermost   *)
(* first, and the TokenMap holds no delimiter pair.                        *)
C14_ThreeLeaves ==
    pc = "done" /\ IsCurlyParenBrack =>
        /\ result.delimiter = NoDelimiter
        /\ result.token_trees =
              <<Punct("{", "Alone", input.next_id + 4),
                Punct("(", "Alone", input.next_id + 3),
                Punct("]", "Alone", input.next_id + 2)>>
        /\ Delims = <<>>
        /\ Ids(Tokens) = <<input.next_id + 2, input.next_id + 3, input.next_id + 4>>

C14_Witness ==
    /\ pc = "done"
    /\ IsCurlyParenBrack
    /\ Len(result.token_trees) = 3

----------------------------------------------------------------------------
(* The stream of tokens Convertor::bump delivers. *)

\* what successive bumps return from the state `c` on, until bump returns
\* None
RECURSIVE BumpAll(_)
BumpAll(c) ==
    LET b == CstBump(c)
    IN IF b.some
       THEN <<[token |-> b.token, range |-> b.range]>> \o BumpAll(b.conv)
       ELSE <<>>

\* every token the Convertor of the input delivers, from its construction
Stream == IF input.mode = "cst" THEN BumpAll(InitConv(input)) ELSE <<>>

IsReal(e) == e.token.variant \in {"Ordinary", "Punch"}

\* the position of an event of the tree, and the tokens below a node
EventPos(ev) == CHOOSE p \in 1..Len(input.events) : input.events[p] = ev
NodeTokens(n) ==
    {input.events[p].tok - 1 :
        p \in {q \in EventPos(EnterNode(n))..EventPos(LeaveNode(n)) :
                  ~IsNodeEvent(input.events[q])}}

\* n lies strictly below m
Below(n, m) ==
    /\ n # m
    /\ EventPos(EnterNode(m)) < EventPos(EnterNode(n))
    /\ EventPos(LeaveNode(n)) < EventPos(LeaveNode(m))

\* the walker enters n: no node above it was replaced
Entered(n) == \A m \in DOMAIN input.replace : ~Below(n, m)

\* the real tokens the walker does not skip
Skipped(t) == \E m \in DOMAIN input.replace : t \in NodeTokens(m)

\* the pieces bump cuts the real token t into: one per character of a
\* punct, the whole token otherwise
Pieces(t) ==
    IF is_punct(TokenAt(t).kind)
    THEN {Punch(t, k) : k \in 0..(Len(TokenAt(t).text) - 1)}
    ELSE {Ordinary(t)}

\* the real token t comes before every token of the node n, or after
Precedes(t, n) == \A u \in NodeTokens(n) : t < u
Follows(t, n) == \A u \in NodeTokens(n) : t > u

\* the list v sits in the stream S right after position p, in list order
DeliveredAt(S, v, p) ==
    /\ p + Len(v) <= Len(S)
    /\ \A i \in 1..Len(v) :
        /\ S[p + i].token = Synthetic(v[i])
        /\ S[p + i].range = v[i].range

\* every piece of the real token t is in S, at a position in `where`
AllPiecesIn(S, t, where) ==
    \A piece \in Pieces(t) : \E j \in where : j <= Len(S) /\ S[j].token = piece

(* C15: for every node N that is a key of replace and that the walker      *)
(* enters, bump never returns a real token of N's subtree, and it returns  *)
(* the synthetic tokens of N's entry by successive bumps in list order and *)
(* nowhere else, after every piece of every real token that precedes N     *)
(* (the second character of a `::` included) and before every piece of     *)
(* every real token that follows N.  At every moment of the conversion the *)
(* tokens still to come are the rest of that stream.                       *)
C15_ReplaceDelivery ==
    input.mode = "cst" =>
        LET S == Stream
            rest == BumpAll(conv)
        IN
        /\ Len(rest) <= Len(S)
        /\ SubSeq(S, Len(S) - Len(rest) + 1, Len(S)) = rest
        /\ \A N \in DOMAIN input.replace :
            Entered(N) =>
                LET v == input.replace[N] IN
                /\ \A j \in 1..Len(S) :
                      IsReal(S[j]) => S[j].token.tok \notin NodeTokens(N)
                /\ \E p \in 0..Len(S) :
                      /\ DeliveredAt(S, v, p)
                      /\ \A j \in 1..Len(S), i \in 1..Len(v) :
                            S[j].token = Synthetic(v[i]) => j = p + i
                      /\ \A t \in 0..(Len(input.lexed) - 1) :
                            /\ Precedes(t, N) /\ ~Skipped(t) => AllPiecesIn(S, t, 1..p)
                            /\ Follows(t, N) /\ ~Skipped(t) =>
                                  AllPiecesIn(S, t, (p + Len(v) + 1)..Len(S))
                            /\ \A j \in 1..Len(S) :
                                  IsReal(S[j]) /\ S[j].token.tok = t =>
                                      /\ Precedes(t, N) => j <= p
                                      /\ Follows(t, N) => j > p + Len(v)

\* the inner node, between `::` and a token, was replaced by `( x`, and
\* every token has been delivered
C15_Witness ==
    /\ input.mode = "cst"
    /\ pc = "flush"
    /\ InnerNode \in DOMAIN input.replace
    /\ RootNode \notin DOMAIN input.replace
    /\ Len(input.replace[InnerNode]) = 2
    /\ Len(input.lexed) = 2
    /\ input.lexed[1].kind = "COLON2"
    /\ NodeTokens(InnerNode) = {1}
    /\ DeliveredAt(Stream, input.replace[InnerNode], 2)
    /\ BumpAll(conv) = <<>>

\* the walker leaves n: no node above it was replaced (a replaced node is
\* itself left, skip_subtree stops at its Leave)
Left(n) == \A m \in DOMAIN input.replace : ~Below(n, m)

(* C16: for every node N that is a key of append and that the walker       *)
(* leaves, bump returns the synthetic tokens of N's entry by successive    *)
(* bumps in list order and nowhere else, after every piece of every real   *)
(* token of N that is delivered (each character of a trailing `::`         *)
(* included), after the tokens of N's own replace entry when N is also a   *)
(* key of replace, and before every real token that follows N and every    *)
(* token appended to a node above N.                                       *)
C16_AppendDelivery ==
    input.mode = "cst" =>
        LET S == Stream IN
        \A N \in DOMAIN input.append :
            Left(N) =>
                LET v == input.append[N] IN
                \E p \in 0..Len(S) :
                    /\ DeliveredAt(S, v, p)
                    /\ \A j \in 1..Len(S), i \in 1..Len(v) :
                          S[j].token = Synthetic(v[i]) => j = p + i
                    /\ \A t \in NodeTokens(N) :
                          ~Skipped(t) => AllPiecesIn(S, t, 1..p)
                    /\ \A j \in 1..Len(S) :
                          /\ IsReal(S[j]) /\ ~Follows(S[j].token.tok, N) => j <= p
                          /\ IsReal(S[j]) /\ Follows(S[j].token.tok, N) => j > p + Len(v)
                    /\ N \in DOMAIN input.replace =>
                          \A j \in 1..Len(S), i \in 1..Len(input.replace[N]) :
                              S[j].token = Synthetic(input.replace[N][i]) => j <= p
                    /\ \A M \in DOMAIN input.append :
                          Below(N, M) =>
                              \A j \in 1..Len(S), i \in 1..Len(input.append[M]) :
                                  S[j].token = Synthetic(input.append[M][i]) =>
                                      j > p + Len(v)

\* the inner node holds `::` and is followed by a token; `x )` was appended
\* to it and every token has been delivered
C16_Witness ==
    /\ input.mode = "cst"
    /\ pc = "flush"
    /\ DOMAIN input.append = {InnerNode}
    /\ DOMAIN input.replace = {}
    /\ Len(input.append[InnerNode]) = 2
    /\ Len(input.lexed) = 2
    /\ input.lexed[1].kind = "COLON2"
    /\ NodeTokens(InnerNode) = {0}
    /\ DeliveredAt(Stream, input.append[InnerNode], 2)
    /\ BumpAll(conv) = <<>>

----------------------------------------------------------------------------
(* Comments. *)

\* the text starts as a doc comment does
HasDocPrefix(text) ==
    \/ IsPrefix(<<"/", "/", "/">>, text)
    \/ IsPrefix(<<"/", "/", "!">>, text)
    \/ IsPrefix(<<"/", "*", "*">>, text)
    \/ IsPrefix(<<"/", "*", "!">>, text)

\* what one round of the loop does with the COMMENT token of the bump b:
\* for a doc comment one id minted for its range, and `#`, `!` for an inner
\* comment, `[doc = literal]` appended with that id on the literal alone;
\* for any other comment nothing
CommentHandled(b, doc) ==
    LET text == ToText(b.token)
        n == Len(stack)
        children == stack[n].subtree.token_trees
        after == stack'[n].subtree.token_trees
        id == conv.id_alloc.next_id
        k == Len(children) + (IF text[3] = "!" THEN 2 ELSE 1)
    IN IF doc
       THEN /\ conv'.id_alloc.next_id = id + 1
            /\ Tokens' = Append(Tokens, [id |-> id, range |-> Relative(b.range)])
            /\ Delims' = Delims
            /\ Len(stack') = n
            /\ SubSeq(stack', 1, n - 1) = SubSeq(stack, 1, n - 1)
            /\ Len(after) = k + 1
            /\ SubSeq(after, 1, Len(children)) = children
            /\ after[Len(children) + 1] = Punct("#", "Alone", Unspecified)
            /\ text[3] = "!" => after[k] = Punct("!", "Alone", Unspecified)
            /\ after[k + 1].tt = "Subtree"
            /\ after[k + 1].delimiter = Delimiter("Bracket", Unspecified)
            /\ Len(after[k + 1].token_trees) = 3
            /\ after[k + 1].token_trees[1] = Ident(<<"d", "o", "c">>, Unspecified)
            /\ after[k + 1].token_trees[2] = Punct("=", "Alone", Unspecified)
            /\ after[k + 1].token_trees[3].tt = "Literal"
            /\ after[k + 1].token_trees[3].id = id
       ELSE /\ stack' = stack
            /\ conv'.id_alloc = conv.id_alloc

(* C17, as claimed: every COMMENT token whose text is a doc comment, a     *)
(* caller's synthetic token included, is converted to `#`, `!` for inner   *)
(* placement, and `[doc = literal]` under one minted id; any other comment *)
(* emits nothing.                                                          *)
C17_Claimed ==
    [][LET b == Bump(conv)
       IN pc = "convert" /\ b.some /\ Kind(b.token) = "COMMENT" =>
            CommentHandled(b, HasDocPrefix(ToText(b.token)))]_vars

(* C17: for every COMMENT token of the source text: if it is a doc comment *)
(* the converter mints exactly one id for the comment's range and appends  *)
(* `#`, then `!` only for inner placement, then a Bracket subtree          *)
(* `[doc = literal]` whose literal carries the minted id while the other   *)
(* fabricated leaves and the bracket carry the unspecified id; if it is    *)
(* not a doc comment it emits nothing and mints no id.  A synthetic        *)
(* COMMENT token emits nothing and mints no id, whatever its text.         *)
C17_DocComment ==
    [][LET b == Bump(conv)
       IN pc = "convert" /\ b.some /\ Kind(b.token) = "COMMENT" =>
            CommentHandled(b, b.token.variant # "Synthetic"
                              /\ HasDocPrefix(ToText(b.token)))]_vars

\* the inner doc comment `//!d` of a lexed text has just been converted
C17_Witness ==
    /\ input.mode = "raw"
    /\ pc = "convert"
    /\ conv.pos = 1
    /\ input.lexed[1].text = <<"/", "/", "!", "d">>
    /\ Len(stack[1].subtree.token_trees) = 3
    /\ stack[1].subtree.token_trees[2] = Punct("!", "Alone", Unspecified)
    /\ stack[1].subtree.token_trees[3].tt = "Subtree"
    /\ stack[1].subtree.token_trees[3].token_trees[3].id = 0
    /\ conv.id_alloc.next_id = 1

----------------------------------------------------------------------------
(* parse_exprs_with_sep: the subtree `input.tt` is split at the punct      *)
(* `input.sep`.  `conv.pos` is the TtIter (how many children it has        *)
(* yielded), `stack` is res.                                               *)

MaxChildren == 3

\* the children a subtree to split is made of
SplitAlphabet ==
    {Ident(<<"a">>, 0), Punct(",", "Alone", 0), Punct("+", "Alone", 0),
     Subtree(Delimiter("Parenthesis", 0), <<Ident(<<"a">>, 0)>>)}

\* TtIter::peek_n(0).is_some()
IterHasNext(pos) == pos < Len(input.tt.token_trees)

\* TtIter::expect_fragment when the parser takes the next k token trees:
\* nothing for none, the token tree itself for one, a subtree without
\* delimiter around several
ExpectFragment(pos, k) ==
    LET taken == SubSeq(input.tt.token_trees, pos + 1, pos + k)
    IN IF k = 0 THEN None
       ELSE IF k = 1 THEN Some(taken[1])
       ELSE Some(Subtree(NoDelimiter, taken))

\* TtIter::expect_char succeeds: the next token tree is the punct `sep`
ExpectChar(pos, sep) ==
    /\ IterHasNext(pos)
    /\ input.tt.token_trees[pos + 1].tt = "Punct"
    /\ input.tt.token_trees[pos + 1].char = sep

\* the subtree res gets for a parsed fragment
Fragment(tt) ==
    IF tt.tt = "Subtree" THEN tt ELSE Subtree(NoDelimiter, <<tt>>)

InitParseExprs ==
    \E tts \in SeqUpTo(SplitAlphabet, MaxChildren), delim \in {"None", "Parenthesis"} :
        /\ input = [mode |-> "split", sep |-> ",",
                    tt |-> Subtree(IF delim = "None" THEN NoDelimiter
                                   ELSE Delimiter(delim, 0), tts)]
        /\ conv = [pos |-> 0]
        /\ stack = <<>>
        /\ pc = "split"
        /\ result = Subtree(NoDelimiter, <<>>)
        /\ sink = NoSink

\* `if tt.token_trees.is_empty() { return Vec::new(); }`
ParseExprsEmpty ==
    /\ pc = "split"
    /\ conv.pos = 0 /\ stack = <<>>
    /\ input.tt.token_trees = <<>>
    /\ pc' = "returned"
    /\ UNCHANGED <<input, conv, stack, result, sink>>

\* one round of the loop; the parser takes any number k of token trees
ParseExprsStep ==
    /\ pc = "split"
    /\ IterHasNext(conv.pos)
    /\ \E k \in 0..(Len(input.tt.token_trees) - conv.pos) :
        LET expanded == ExpectFragment(conv.pos, k) IN
        IF ~IsSome(expanded)
        THEN /\ pc' = "rest"
             /\ UNCHANGED <<conv, stack>>
        ELSE /\ stack' = Append(stack, Fragment(Unwrap(expanded)))
             /\ IF ExpectChar(conv.pos + k, input.sep)
                THEN /\ conv' = [conv EXCEPT !.pos = @ + k + 1]
                     /\ pc' = pc
                ELSE /\ conv' = [conv EXCEPT !.pos = @ + k]
                     /\ pc' = "rest"
    /\ UNCHANGED <<input, result, sink>>

\* the loop's condition fails: the iterator is at its end
ParseExprsLoopEnd ==
    /\ pc = "split"
    /\ input.tt.token_trees # <<>>
    /\ ~IterHasNext(conv.pos)
    /\ pc' = "rest"
    /\ UNCHANGED <<input, conv, stack, result, sink>>

\* a return that leaves the unparsed remainder out
ParseExprsRestDropped ==
    /\ pc = "rest"
    /\ stack' = stack
    /\ pc' = "returned"
    /\ UNCHANGED <<input, conv, result, sink>>

\* the remainder, and the return
ParseExprsRest ==
    /\ pc = "rest"
    /\ stack' = IF IterHasNext(conv.pos)
                THEN Append(stack,
                        Subtree(NoDelimiter,
                                SubSeq(input.tt.token_trees, conv.pos + 1,
                                       Len(input.tt.token_trees))))
                ELSE stack
    /\ pc' = "returned"
    /\ UNCHANGED <<input, conv, result, sink>>

NextParseExprs ==
    \/ ParseExprsEmpty
    \/ ParseExprsStep
    \/ ParseExprsLoopEnd
    \/ ParseExprsRest

SpecParseExprs == InitParseExprs /\ [][NextParseExprs]_vars

\* the children of the input a returned subtree stands for: its children,
\* or itself when it is a delimited child the parser took alone
StandsFor(t) == IF t.delimiter.kind = "None" THEN t.token_trees ELSE <<t>>

Flat(res) == Concat([i \in 1..Len(res) |-> StandsFor(res[i])])

\* the sequence s without the entries at the positions D
RECURSIVE KeepFrom(_, _, _)
KeepFrom(s, D, i) ==
    IF i > Len(s) THEN <<>>
    ELSE (IF i \in D THEN <<>> ELSE <<s[i]>>) \o KeepFrom(s, D, i + 1)

\* the positions of the separator among the children of the input
SepPositions ==
    {i \in 1..Len(input.tt.token_trees) :
        input.tt.token_trees[i].tt = "Punct" /\ input.tt.token_trees[i].char = input.sep}

(* C18, as claimed: the returned subtrees hold, in order, every child of   *)
(* the input except separators that stand between two parsed expressions   *)
(* (so a dropped separator is neither the first nor the last child); an    *)
(* input without children returns the empty list.                          *)
C18_Claimed ==
    pc = "returned" =>
        LET children == input.tt.token_trees IN
        /\ children = <<>> => stack = <<>>
        /\ \E D \in SUBSET SepPositions :
            /\ \A d \in D : 1 < d /\ d < Len(children)
            /\ KeepFrom(children, D, 1) = Flat(stack)

(* C18: whatever the expression parser takes, the returned subtrees hold,  *)
(* in input order, every child of the input except separators consumed     *)
(* right after a parsed expression, whether or not another expression      *)
(* follows: at most one separator is dropped per returned subtree, never   *)
(* the first child and never two in a row.  An unparsed remainder is the   *)
(* last returned subtree and has no delimiter; an input without children   *)
(* returns the empty list.  While the split runs, res holds the children   *)
(* the iterator has passed, the same separators excepted.                  *)
C18_NoTokenLost ==
    LET children == input.tt.token_trees
        passed == IF pc = "returned" THEN Len(children) ELSE conv.pos
    IN /\ pc = "returned" /\ children = <<>> => stack = <<>>
       /\ pc = "returned" /\ conv.pos < Len(children) =>
            /\ stack # <<>>
            /\ Last(stack) = Subtree(NoDelimiter,
                                     SubSeq(children, conv.pos + 1, Len(children)))
       /\ \E D \in SUBSET SepPositions :
            /\ \A d \in D : 1 < d /\ d <= passed /\ d - 1 \notin D
            /\ Cardinality(D) <= Len(stack)
            /\ KeepFrom(SubSeq(children, 1, passed), D, 1) = Flat(stack)

\* `a ,` has been split: the separator after the only expression is gone
C18_Witness ==
    /\ pc = "returned"
    /\ input.tt.token_trees = <<Ident(<<"a">>, 0), Punct(",", "Alone", 0)>>
    /\ stack = <<Subtree(NoDelimiter, <<Ident(<<"a">>, 0)>>)>>

----------------------------------------------------------------------------
(* Synthetic origins. *)

\* the synthetic tokens the caller put into replace and append
AllSynthetic ==
    UNION ({ {input.replace[n][i] : i \in 1..Len(input.replace[n])} : n \in DOMAIN input.replace }
           \cup
           { {input.append[n][i] : i \in 1..Len(input.append[n])} : n \in DOMAIN input.append })

\* the relative range is the one the caller gave its synthetic tokens (no
\* token of the node has it: it is empty, or lies behind the node)
IsSyntheticRange(r) == \E s \in AllSynthetic : Relative(s.range) = r

\* the ids minted for a token of the caller: as a leaf, or as the delimiter
\* of a subtree
MintedForSynthetic ==
    {Tokens[i].id : i \in {j \in 1..Len(Tokens) : IsSyntheticRange(Tokens[j].range)}}
    \cup {Delims[i].id : i \in {j \in 1..Len(Delims) : IsSyntheticRange(Delims[j].open)}}

SyntheticOrigins == conv.id_alloc.map.synthetic

(* C19, as claimed: after a conversion with synthetic tokens, an id has an *)
(* entry in the synthetic-origin relation if and only if it was minted for *)
(* a token of the caller, leaf or delimiter, and the entry holds the       *)
(* origin id of one of the caller's tokens.                                *)
C19_Claimed ==
    pc = "done" /\ input.mode = "cst" =>
        /\ IdSet(SyntheticOrigins) = MintedForSynthetic
        /\ \A i \in 1..Len(SyntheticOrigins) :
              \E s \in AllSynthetic : s.id = SyntheticOrigins[i].origin

----------------------------------------------------------------------------
(* Totality. *)

(* C20, as claimed: on every token stream of either adapter, synthetic     *)
(* tokens of any kind and text included, convert_tokens fails no assertion *)
(* and does not panic; when it has returned, the adapter has nothing left  *)
(* to deliver and the result is a subtree.                                 *)
C20_Claimed ==
    /\ pc # "panic"
    /\ pc = "done" =>
        /\ ~Bump(conv).some
        /\ result.tt = "Subtree"

----------------------------------------------------------------------------
(* Attribute completion (ide_completion, completions/attribute.rs).  A     *)
(* string is the sequence of its characters; `input` is the context of the *)
(* completion, `conv` the cursor over the applicable names and the cursor  *)
(* of the binary search, `stack` the completions added to acc.             *)

\* the first byte of a character (ELLIPSIS is the one character of the
\* labels that is not ASCII): `str` compares byte by byte
Code(c) ==
    CASE c = " " -> 32
      [] c = "\"" -> 34
      [] c = "(" -> 40
      [] c = ")" -> 41
      [] c = "=" -> 61
      [] c = "_" -> 95
      [] c = "a" -> 97
      [] c = "b" -> 98
      [] c = "c" -> 99
      [] c = "d" -> 100
      [] c = "e" -> 101
      [] c = "f" -> 102
      [] c = "g" -> 103
      [] c = "h" -> 104
      [] c = "i" -> 105
      [] c = "k" -> 107
      [] c = "l" -> 108
      [] c = "m" -> 109
      [] c = "n" -> 110
      [] c = "o" -> 111
      [] c = "p" -> 112
      [] c = "r" -> 114
      [] c = "s" -> 115
      [] c = "t" -> 116
      [] c = "u" -> 117
      [] c = "v" -> 118
      [] c = "w" -> 119
      [] c = "x" -> 120
      [] c = "y" -> 121
      [] c = "ELLIPSIS" -> 226
      [] OTHER -> 0

\* str::cmp
RECURSIVE Cmp(_, _)
Cmp(a, b) ==
    IF a = <<>> /\ b = <<>> THEN "Equal"
    ELSE IF a = <<>> THEN "Less"
    ELSE IF b = <<>> THEN "Greater"
    ELSE IF Code(Head(a)) < Code(Head(b)) THEN "Less"
    ELSE IF Code(Head(a)) > Code(Head(b)) THEN "Greater"
    ELSE Cmp(Tail(a), Tail(b))

\* AttrCompletion; the snippet plays no part in the lookup
attr(label, lookup) == [label |-> label, lookup |-> lookup, prefer_inner |-> FALSE]

prefer_inner(self) == [self EXCEPT !.prefer_inner = TRUE]

\* a key that is always the label
keyLabel(self) == self.label

\* AttrCompletion::key
key(self) == IF IsSome(self.lookup) THEN Unwrap(self.lookup) ELSE self.label

ATTRIBUTES ==
    <<
      attr(<<"a", "l", "l", "o", "w", "(", "ELLIPSIS", ")">>, Some(<<"a", "l", "l", "o", "w">>)),
      attr(<<"a", "u", "t", "o", "m", "a", "t", "i", "c", "a", "l", "l", "y", "_", "d", "e", "r", "i", "v", "e", "d">>, None),
      attr(<<"c", "f", "g", "(", "ELLIPSIS", ")">>, Some(<<"c", "f", "g">>)),
      attr(<<"c", "f", "g", "_", "a", "t", "t", "r", "(", "ELLIPSIS", ")">>, Some(<<"c", "f", "g", "_", "a", "t", "t", "r">>)),
      attr(<<"c", "o", "l", "d">>, None),
      prefer_inner(attr(<<"c", "r", "a", "t", "e", "_", "n", "a", "m", "e", " ", "=", " ", "\"", "\"">>, Some(<<"c", "r", "a", "t", "e", "_", "n", "a", "m", "e">>))),
      attr(<<"d", "e", "n", "y", "(", "ELLIPSIS", ")">>, Some(<<"d", "e", "n", "y">>)),
      attr(<<"d", "e", "p", "r", "e", "c", "a", "t", "e", "d">>, Some(<<"d", "e", "p", "r", "e", "c", "a", "t", "e", "d">>)),
      attr(<<"d", "e", "r", "i", "v", "e", "(", "ELLIPSIS", ")">>, Some(<<"d", "e", "r", "i", "v", "e">>)),
      attr(<<"d", "o", "c", " ", "=", " ", "\"", "ELLIPSIS", "\"">>, Some(<<"d", "o", "c">>)),
      attr(<<"d", "o", "c", "(", "a", "l", "i", "a", "s", " ", "=", " ", "\"", "ELLIPSIS", "\"", ")">>, Some(<<"d", "o", "c", "a", "l", "i", "a", "s">>)),
      attr(<<"d", "o", "c", "(", "h", "i", "d", "d", "e", "n", ")">>, Some(<<"d", "o", "c", "h", "i", "d", "d", "e", "n">>)),
      attr(<<"e", "x", "p", "o", "r", "t", "_", "n", "a", "m", "e", " ", "=", " ", "\"", "ELLIPSIS", "\"">>, Some(<<"e", "x", "p", "o", "r", "t", "_", "n", "a", "m", "e">>)),
      prefer_inner(attr(<<"f", "e", "a", "t", "u", "r", "e", "(", "ELLIPSIS", ")">>, Some(<<"f", "e", "a", "t", "u", "r", "e">>))),
      attr(<<"f", "o", "r", "b", "i", "d", "(", "ELLIPSIS", ")">>, Some(<<"f", "o", "r", "b", "i", "d">>)),
      attr(<<"g", "l", "o", "b", "a", "l", "_", "a", "l", "l", "o", "c", "a", "t", "o", "r">>, None),
      attr(<<"i", "g", "n", "o", "r", "e", " ", "=", " ", "\"", "ELLIPSIS", "\"">>, Some(<<"i", "g", "n", "o", "r", "e">>)),
      attr(<<"i", "n", "l", "i", "n", "e">>, Some(<<"i", "n", "l", "i", "n", "e">>)),
      attr(<<"l", "i", "n", "k">>, None),
      attr(<<"l", "i", "n", "k", "_", "n", "a", "m", "e", " ", "=", " ", "\"", "ELLIPSIS", "\"">>, Some(<<"l", "i", "n", "k", "_", "n", "a", "m", "e">>)),
      attr(<<"l", "i", "n", "k", "_", "s", "e", "c", "t", "i", "o", "n", " ", "=", " ", "\"", "ELLIPSIS", "\"">>, Some(<<"l", "i", "n", "k", "_", "s", "e", "c", "t", "i", "o", "n">>)),
      attr(<<"m", "a", "c", "r", "o", "_", "e", "x", "p", "o", "r", "t">>, None),
      attr(<<"m", "a", "c", "r", "o", "_", "u", "s", "e">>, None),
      attr(<<"m", "u", "s", "t", "_", "u", "s", "e">>, Some(<<"m", "u", "s", "t", "_", "u", "s", "e">>)),
      prefer_inner(attr(<<"n", "o", "_", "i", "m", "p", "l", "i", "c", "i", "t", "_", "p", "r", "e", "l", "u", "d", "e">>, None)),
      prefer_inner(attr(<<"n", "o", "_", "l", "i", "n", "k">>, None)),
      prefer_inner(attr(<<"n", "o", "_", "m", "a", "i", "n">>, None)),
      attr(<<"n", "o", "_", "m", "a", "n", "g", "l", "e">>, None),
      prefer_inner(attr(<<"n", "o", "_", "s", "t", "d">>, None)),
      attr(<<"n", "o", "n", "_", "e", "x", "h", "a", "u", "s", "t", "i", "v", "e">>, None),
      attr(<<"p", "a", "n", "i", "c", "_", "h", "a", "n", "d", "l", "e", "r">>, None),
      attr(<<"p", "a", "t", "h", " ", "=", " ", "\"", "ELLIPSIS", "\"">>, Some(<<"p", "a", "t", "h">>)),
      attr(<<"p", "r", "o", "c", "_", "m", "a", "c", "r", "o">>, None),
      attr(<<"p", "r", "o", "c", "_", "m", "a", "c", "r", "o", "_", "a", "t", "t", "r", "i", "b", "u", "t", "e">>, None),
      attr(<<"p", "r", "o", "c", "_", "m", "a", "c", "r", "o", "_", "d", "e", "r", "i", "v", "e", "(", "ELLIPSIS", ")">>, Some(<<"p", "r", "o", "c", "_", "m", "a", "c", "r", "o", "_", "d", "e", "r", "i", "v", "e">>)),
      attr(<<"r", "e", "c", "u", "r", "s", "i", "o", "n", "_", "l", "i", "m", "i", "t", " ", "=", " ", "\"", "ELLIPSIS", "\"">>, Some(<<"r", "e", "c", "u", "r", "s", "i", "o", "n", "_", "l", "i", "m", "i", "t">>)),
      attr(<<"r", "e", "p", "r", "(", "ELLIPSIS", ")">>, Some(<<"r", "e", "p", "r">>)),
      attr(<<"s", "h", "o", "u", "l", "d", "_", "p", "a", "n", "i", "c">>, Some(<<"s", "h", "o", "u", "l", "d", "_", "p", "a", "n", "i", "c">>)),
      attr(<<"t", "a", "r", "g", "e", "t", "_", "f", "e", "a", "t", "u", "r", "e", " ", "=", " ", "\"", "ELLIPSIS", "\"">>, Some(<<"t", "a", "r", "g", "e", "t", "_", "f", "e", "a", "t", "u", "r", "e">>)),
      attr(<<"t", "e", "s", "t">>, None),
      attr(<<"t", "r", "a", "c", "k", "_", "c", "a", "l", "l", "e", "r">>, None),
      prefer_inner(attr(<<"t", "y", "p", "e", "_", "l", "e", "n", "g", "t", "h", "_", "l", "i", "m", "i", "t", " ", "=", " ", "ELLIPSIS">>, Some(<<"t", "y", "p", "e", "_", "l", "e", "n", "g", "t", "h", "_", "l", "i", "m", "i", "t">>))),
      attr(<<"u", "s", "e", "d">>, None),
      attr(<<"w", "a", "r", "n", "(", "ELLIPSIS", ")">>, Some(<<"w", "a", "r", "n">>)),
      attr(<<"w", "i", "n", "d", "o", "w", "s", "_", "s", "u", "b", "s", "y", "s", "t", "e", "m", " ", "=", " ", "\"", "ELLIPSIS", "\"">>, Some(<<"w", "i", "n", "d", "o", "w", "s", "_", "s", "u", "b", "s", "y", "s", "t", "e", "m">>))>>

\* attrs!: the names every kind has, then those of item, adt and linkable
AttrsBase ==
    <<<<"a", "l", "l", "o", "w">>,
      <<"c", "f", "g">>,
      <<"c", "f", "g", "_", "a", "t", "t", "r">>,
      <<"d", "e", "n", "y">>,
      <<"f", "o", "r", "b", "i", "d">>,
      <<"w", "a", "r", "n">>>>
AttrsItem ==
    <<<<"d", "e", "p", "r", "e", "c", "a", "t", "e", "d">>,
      <<"d", "o", "c">>,
      <<"d", "o", "c", "h", "i", "d", "d", "e", "n">>,
      <<"d", "o", "c", "a", "l", "i", "a", "s">>,
      <<"m", "u", "s", "t", "_", "u", "s", "e">>,
      <<"n", "o", "_", "m", "a", "n", "g", "l", "e">>>>
AttrsAdt ==
    <<<<"d", "e", "r", "i", "v", "e">>,
      <<"r", "e", "p", "r">>>>
AttrsLinkable ==
    <<<<"e", "x", "p", "o", "r", "t", "_", "n", "a", "m", "e">>,
      <<"l", "i", "n", "k", "_", "n", "a", "m", "e">>,
      <<"l", "i", "n", "k", "_", "s", "e", "c", "t", "i", "o", "n">>>>

\* the map, as its (kind, names) pairs
KIND_TO_ATTRIBUTES ==
    <<<<"SOURCE_FILE",
          AttrsBase
          \o AttrsItem
          \o <<<<"c", "r", "a", "t", "e", "_", "n", "a", "m", "e">>, <<"f", "e", "a", "t", "u", "r", "e">>, <<"n", "o", "_", "i", "m", "p", "l", "i", "c", "i", "t", "_", "p", "r", "e", "l", "u", "d", "e">>, <<"n", "o", "_", "m", "a", "i", "n">>, <<"n", "o", "_", "s", "t", "d">>, <<"r", "e", "c", "u", "r", "s", "i", "o", "n", "_", "l", "i", "m", "i", "t">>, <<"t", "y", "p", "e", "_", "l", "e", "n", "g", "t", "h", "_", "l", "i", "m", "i", "t">>, <<"w", "i", "n", "d", "o", "w", "s", "_", "s", "u", "b", "s", "y", "s", "t", "e", "m">>>>>>,
      <<"MODULE",
          AttrsBase
          \o AttrsItem
          \o <<<<"m", "a", "c", "r", "o", "_", "u", "s", "e">>, <<"n", "o", "_", "i", "m", "p", "l", "i", "c", "i", "t", "_", "p", "r", "e", "l", "u", "d", "e">>, <<"p", "a", "t", "h">>>>>>,
      <<"ITEM_LIST",
          AttrsBase
          \o AttrsItem
          \o <<<<"n", "o", "_", "i", "m", "p", "l", "i", "c", "i", "t", "_", "p", "r", "e", "l", "u", "d", "e">>>>>>,
      <<"MACRO_RULES",
          AttrsBase
          \o AttrsItem
          \o <<<<"m", "a", "c", "r", "o", "_", "e", "x", "p", "o", "r", "t">>, <<"m", "a", "c", "r", "o", "_", "u", "s", "e">>>>>>,
      <<"MACRO_DEF",
          AttrsBase
          \o AttrsItem>>,
      <<"EXTERN_CRATE",
          AttrsBase
          \o AttrsItem
          \o <<<<"m", "a", "c", "r", "o", "_", "u", "s", "e">>, <<"n", "o", "_", "l", "i", "n", "k">>>>>>,
      <<"USE",
          AttrsBase
          \o AttrsItem>>,
      <<"TYPE_ALIAS",
          AttrsBase
          \o AttrsItem>>,
      <<"STRUCT",
          AttrsBase
          \o AttrsItem
          \o AttrsAdt
          \o <<<<"n", "o", "n", "_", "e", "x", "h", "a", "u", "s", "t", "i", "v", "e">>>>>>,
      <<"ENUM",
          AttrsBase
          \o AttrsItem
          \o AttrsAdt
          \o <<<<"n", "o", "n", "_", "e", "x", "h", "a", "u", "s", "t", "i", "v", "e">>>>>>,
      <<"UNION",
          AttrsBase
          \o AttrsItem
          \o AttrsAdt>>,
      <<"CONST",
          AttrsBase
          \o AttrsItem>>,
      <<"FN",
          AttrsBase
          \o AttrsItem
          \o AttrsLinkable
          \o <<<<"c", "o", "l", "d">>, <<"i", "g", "n", "o", "r", "e">>, <<"i", "n", "l", "i", "n", "e">>, <<"m", "u", "s", "t", "_", "u", "s", "e">>, <<"p", "a", "n", "i", "c", "_", "h", "a", "n", "d", "l", "e", "r">>, <<"p", "r", "o", "c", "_", "m", "a", "c", "r", "o">>, <<"p", "r", "o", "c", "_", "m", "a", "c", "r", "o", "_", "d", "e", "r", "i", "v", "e">>, <<"p", "r", "o", "c", "_", "m", "a", "c", "r", "o", "_", "a", "t", "t", "r", "i", "b", "u", "t", "e">>, <<"s", "h", "o", "u", "l", "d", "_", "p", "a", "n", "i", "c">>, <<"t", "a", "r", "g", "e", "t", "_", "f", "e", "a", "t", "u", "r", "e">>, <<"t", "e", "s", "t">>, <<"t", "r", "a", "c", "k", "_", "c", "a", "l", "l", "e", "r">>>>>>,
      <<"STATIC",
          AttrsBase
          \o AttrsItem
          \o AttrsLinkable
          \o <<<<"g", "l", "o", "b", "a", "l", "_", "a", "l", "l", "o", "c", "a", "t", "o", "r">>, <<"u", "s", "e", "d">>>>>>,
      <<"TRAIT",
          AttrsBase
          \o AttrsItem
          \o <<<<"m", "u", "s", "t", "_", "u", "s", "e">>>>>>,
      <<"IMPL",
          AttrsBase
          \o AttrsItem
          \o <<<<"a", "u", "t", "o", "m", "a", "t", "i", "c", "a", "l", "l", "y", "_", "d", "e", "r", "i", "v", "e", "d">>>>>>,
      <<"ASSOC_ITEM_LIST",
          AttrsBase
          \o AttrsItem>>,
      <<"EXTERN_BLOCK",
          AttrsBase
          \o AttrsItem
          \o <<<<"l", "i", "n", "k">>>>>>,
      <<"EXTERN_ITEM_LIST",
          AttrsBase
          \o AttrsItem
          \o <<<<"l", "i", "n", "k">>>>>>,
      <<"MACRO_CALL",
          AttrsBase>>,
      <<"SELF_PARAM",
          AttrsBase>>,
      <<"PARAM",
          AttrsBase>>,
      <<"RECORD_FIELD",
          AttrsBase>>,
      <<"VARIANT",
          AttrsBase
          \o <<<<"n", "o", "n", "_", "e", "x", "h", "a", "u", "s", "t", "i", "v", "e">>>>>>,
      <<"TYPE_PARAM",
          AttrsBase>>,
      <<"CONST_PARAM",
          AttrsBase>>,
      <<"LIFETIME_PARAM",
          AttrsBase>>,
      <<"LET_STMT",
          AttrsBase>>,
      <<"EXPR_STMT",
          AttrsBase>>,
      <<"LITERAL",
          AttrsBase>>,
      <<"RECORD_EXPR_FIELD_LIST",
          AttrsBase>>,
      <<"RECORD_EXPR_FIELD",
          AttrsBase>>,
      <<"MATCH_ARM_LIST",
          AttrsBase>>,
      <<"MATCH_ARM",
          AttrsBase>>,
      <<"IDENT_PAT",
          AttrsBase>>,
      <<"RECORD_PAT_FIELD",
          AttrsBase>>>>

EXPR_ATTRIBUTES == AttrsBase
\* ast::Expr::can_cast
IsExprKind(kind) == kind \in {"BIN_EXPR", "LITERAL"}

\* `let attributes = annotated_item_kind.and_then(..)`
Applicable(annotated_item_kind) ==
    IF ~IsSome(annotated_item_kind) THEN None
    ELSE IF IsExprKind(Unwrap(annotated_item_kind)) THEN Some(EXPR_ATTRIBUTES)
    ELSE LET map == KIND_TO_ATTRIBUTES
             kind == Unwrap(annotated_item_kind)
         IN IF \E i \in 1..Len(map) : map[i][1] = kind
            THEN Some(map[CHOOSE i \in 1..Len(map) : map[i][1] = kind][2])
            ELSE None

\* the cursor at the applicable name `next` (from 1), its binary search not
\* yet begun
SearchFrom(next) ==
    [next |-> next, left |-> 0, right |-> Len(ATTRIBUTES), size |-> Len(ATTRIBUTES),
     idx |-> 0]

\* the annotated item is none, of a kind of the map, an expression, or of a
\* kind the map does not hold
InitAttributes ==
    \E is_inner \in BOOLEAN,
       kind \in {None} \cup {Some("BIN_EXPR"), Some("WHERE_CLAUSE")}
                \cup {Some(KIND_TO_ATTRIBUTES[i][1]) : i \in 1..Len(KIND_TO_ATTRIBUTES)} :
        /\ input = [mode |-> "attr", is_inner |-> is_inner, annotated_item_kind |-> kind]
        /\ conv = SearchFrom(1)
        /\ stack = <<>>
        /\ pc = "search"
        /\ result = Subtree(NoDelimiter, <<>>)
        /\ sink = NoSink

\* the closure add_completion: acc with the label of the completion, unless
\* the completion prefers an inner attribute and this one is outer
add_completion(acc, attr_completion) ==
    IF input.is_inner \/ ~attr_completion.prefer_inner
    THEN Append(acc, attr_completion.label)
    ELSE acc

\* one round of slice::binary_search_by for the applicable name at the
\* cursor; a name that is not found is passed over (`.ok()`)
BinarySearchStep ==
    /\ pc = "search"
    /\ IsSome(Applicable(input.annotated_item_kind))
    /\ LET applicable == Unwrap(Applicable(input.annotated_item_kind)) IN
        /\ conv.next <= Len(applicable)
        /\ IF conv.left < conv.right
           THEN LET mid == conv.left + (conv.size \div 2)
                    cmp == Cmp(key(ATTRIBUTES[mid + 1]), applicable[conv.next])
                    left == IF cmp = "Less" THEN mid + 1 ELSE conv.left
                    right == IF cmp = "Greater" THEN mid ELSE conv.right
                IN IF cmp = "Equal"
                   THEN /\ conv' = [conv EXCEPT !.idx = mid]
                        /\ pc' = "found"
                   ELSE /\ conv' = [conv EXCEPT !.left = left, !.right = right,
                                                !.size = right - left]
                        /\ pc' = pc
           ELSE /\ conv' = SearchFrom(conv.next + 1)
                /\ pc' = pc
    /\ UNCHANGED <<input, stack, result, sink>>

\* `.flat_map(|idx| ATTRIBUTES.get(idx)).for_each(add_completion)`
AddCompletion ==
    /\ pc = "found"
    /\ stack' = add_completion(stack, ATTRIBUTES[conv.idx + 1])
    /\ conv' = SearchFrom(conv.next + 1)
    /\ pc' = "search"
    /\ UNCHANGED <<input, result, sink>>

\* the applicable names are exhausted
AttributesDone ==
    /\ pc = "search"
    /\ IsSome(Applicable(input.annotated_item_kind))
    /\ conv.next > Len(Unwrap(Applicable(input.annotated_item_kind)))
    /\ pc' = "done"
    /\ UNCHANGED <<input, conv, stack, result, sink>>

RECURSIVE AddEach(_, _)
AddEach(acc, attrs) ==
    IF attrs = <<>> THEN acc
    ELSE AddEach(add_completion(acc, Head(attrs)), Tail(attrs))

\* no list for the kind: every attribute is offered
AddAll ==
    /\ pc = "search"
    /\ ~IsSome(Applicable(input.annotated_item_kind))
    /\ stack' = AddEach(stack, ATTRIBUTES)
    /\ pc' = "done"
    /\ UNCHANGED <<input, conv, result, sink>>

NextAttributes ==
    \/ BinarySearchStep
    \/ AddCompletion
    \/ AttributesDone
    \/ AddAll

SpecAttributes == InitAttributes /\ [][NextAttributes]_vars

(* C21: the keys of ATTRIBUTES (lookup if present, otherwise label) are    *)
(* strictly increasing in string order, and the binary search of           *)
(* complete_attribute finds every name of KIND_TO_ATTRIBUTES and of        *)
(* EXPR_ATTRIBUTES: its interval never empties, the entry it stops at has  *)
(* the name as its key, and when the names are exhausted every name has an *)
(* entry whose label was added unless the entry prefers an inner attribute *)
(* and the attribute is outer.                                             *)
C21_AttributesSorted ==
    /\ \A i \in 1..(Len(ATTRIBUTES) - 1) :
          Cmp(key(ATTRIBUTES[i]), key(ATTRIBUTES[i + 1])) = "Less"
    /\ IsSome(Applicable(input.annotated_item_kind)) =>
        LET applicable == Unwrap(Applicable(input.annotated_item_kind)) IN
        /\ pc = "search" /\ conv.next <= Len(applicable) => conv.left < conv.right
        /\ pc = "found" => key(ATTRIBUTES[conv.idx + 1]) = applicable[conv.next]
        /\ pc = "done" =>
            \A n \in 1..Len(applicable) :
                \E i \in 1..Len(ATTRIBUTES) :
                    /\ key(ATTRIBUTES[i]) = applicable[n]
                    /\ input.is_inner \/ ~ATTRIBUTES[i].prefer_inner =>
                          \E j \in 1..Len(stack) : stack[j] = ATTRIBUTES[i].label

\* the attributes of an enum variant have been completed: `non_exhaustive`
\* was found and is the last of seven
C21_Witness ==
    /\ pc = "done"
    /\ input.annotated_item_kind = Some("VARIANT")
    /\ Len(stack) = 7
    /\ stack[7] = <<"n", "o", "n", "_", "e", "x", "h", "a", "u", "s", "t", "i", "v", "e">>


----------------------------------------------------------------------------
(* Closing delimiters that match. *)

(* C22: a closing delimiter closes a subtree only when it is the closer    *)
(* the innermost open subtree expects.  Then exactly that stack entry is   *)
(* popped, the entries below the new top are untouched, the pair slot of   *)
(* the popped entry receives the closer's range and no other pair changes, *)
(* the completed subtree becomes the last child of the new top, and no id  *)
(* is minted and no token range recorded for the closer.  Any other closer *)
(* leaves the stack as deep as it was, with the same open subtrees, and    *)
(* changes no pair.                                                        *)
C22_MatchingCloser ==
    [][LET b == Bump(conv)
           kind == Kind(b.token)
           n == Len(stack)
           entry == stack[n]
       IN (pc = "convert" /\ b.some /\ kind \in CloserKinds) =>
            IF kind = Expected(entry.subtree.delimiter.kind)
            THEN /\ n > 1
                 /\ pc' = "convert"
                 /\ Len(stack') = n - 1
                 /\ SubSeq(stack', 1, n - 2) = SubSeq(stack, 1, n - 2)
                 /\ stack'[n - 1] =
                      [stack[n - 1] EXCEPT
                         !.subtree.token_trees = Append(@, entry.subtree)]
                 /\ Len(Delims') = Len(Delims)
                 /\ \A i \in 1..Len(Delims) :
                      Delims'[i] = IF i = entry.idx
                                   THEN [Delims[i] EXCEPT !.close = Relative(b.range)]
                                   ELSE Delims[i]
                 /\ Delims[entry.idx].id = entry.subtree.delimiter.id
                 /\ Tokens' = Tokens
                 /\ conv'.id_alloc.next_id = conv.id_alloc.next_id
            ELSE /\ Len(stack') = n
                 /\ \A i \in 1..n :
                      /\ stack'[i].subtree.delimiter = stack[i].subtree.delimiter
                      /\ stack'[i].idx = stack[i].idx
                 /\ Delims' = Delims]_vars

\* `{ ( )` so far: the parenthesis is closed and is a child of the brace,
\* which is still open; the pair of the parenthesis has the range of `)`
C22_Witness ==
    /\ pc = "convert"
    /\ Len(stack) = 2
    /\ stack[2].subtree.delimiter.kind = "Brace"
    /\ Len(stack[2].subtree.token_trees) = 1
    /\ stack[2].subtree.token_trees[1].tt = "Subtree"
    /\ stack[2].subtree.token_trees[1].delimiter.kind = "Parenthesis"
    /\ \E i \in 1..Len(Delims) :
          /\ Delims[i].id = stack[2].subtree.token_trees[1].delimiter.id
          /\ Delims[i].close.s > Delims[i].open.s


----------------------------------------------------------------------------
(* Punct splitting in the Convertor. *)

\* the positions of the stream S that hold a piece of the real token t
PositionsOf(S, t) == {p \in 1..Len(S) : IsReal(S[p]) /\ S[p].token.tok = t}

(* C23: for every real punctuation token of k characters that the walker   *)
(* reaches (none of a replaced subtree is delivered at all), successive    *)
(* bumps of the Convertor deliver exactly k tokens for it, one after the   *)
(* other with nothing in between, the i-th (from 0) being the piece at     *)
(* offset i with the i-th character and the range [start+i, start+i+1).    *)
(* After the piece at offset i the cursor is (token, i); while a character *)
(* is left, peek reports the piece at offset i+1 with its character and    *)
(* the next bump still delivers that piece.                                *)
C23_PunctSplitting ==
    input.mode = "cst" =>
        LET S == Stream
            b == CstBump(conv)
        IN
        /\ \A t \in 0..(Len(input.lexed) - 1) :
             is_punct(TokenAt(t).kind) =>
                LET text == TokenAt(t).text
                    start == TokenAt(t).range.s
                    k == Len(text)
                IN IF Skipped(t)
                   THEN PositionsOf(S, t) = {}
                   ELSE \E p \in 1..Len(S) :
                          /\ PositionsOf(S, t) = p..(p + k - 1)
                          /\ \A i \in 0..(k - 1) :
                               /\ S[p + i].token = Punch(t, i)
                               /\ S[p + i].range = Range(start + i, start + i + 1)
                               /\ ToChar(S[p + i].token) = Some(text[i + 1])
        /\ (pc = "convert" /\ b.some /\ b.token.variant = "Punch") =>
             LET t == b.token.tok
                 i == b.token.off
                 text == TokenAt(t).text
             IN /\ b.conv.punct_offset = Some([tok |-> t, off |-> i])
                /\ i + 1 < Len(text) =>
                     /\ CstPeek(b.conv) = Some(Punch(t, i + 1))
                     /\ ToChar(Unwrap(CstPeek(b.conv))) = Some(text[i + 2])
                     /\ CstBump(b.conv).token = Punch(t, i + 1)
                     /\ CstBump(b.conv).conv.punct_offset = Some([tok |-> t, off |-> i + 1])

\* both characters of a `::` have been delivered while synthetic tokens
\* wait to be delivered next
C23_Witness ==
    /\ input.mode = "cst"
    /\ pc = "convert"
    /\ IsSome(conv.punct_offset)
    /\ TokenAt(Unwrap(conv.punct_offset).tok).kind = "COLON2"
    /\ Unwrap(conv.punct_offset).off = 1
    /\ conv.current_synthetic # <<>>


----------------------------------------------------------------------------
(* Lifetime identifiers. *)

(* C24: a LIFETIME_IDENT token with the range [s, e) yields exactly two    *)
(* leaves, appended one after the other to the innermost open subtree: a   *)
(* Punct with the character ' and the spacing Joint, then an Ident with    *)
(* the text after the apostrophe.  Their ids are the next id and the one   *)
(* after it; the TokenMap gains exactly two token ranges, [s, s+1) for the *)
(* first id and [s+1, e) for the second, which split [s, e) in two, and    *)
(* nothing else of the TokenMap or of the stack changes.                   *)
C24_LifetimeLeaves ==
    [][LET b == Bump(conv)
           n == Len(stack)
           children == stack[n].subtree.token_trees
           id == conv.id_alloc.next_id
           s == b.range.s
           e == b.range.e
       IN (pc = "convert" /\ b.some /\ Kind(b.token) = "LIFETIME_IDENT") =>
            /\ pc' = "convert"
            /\ s + 1 <= e
            /\ stack' = [stack EXCEPT ![n].subtree.token_trees =
                            children \o <<Punct("'", "Joint", id),
                                          Ident(Tail(ToText(b.token)), id + 1)>>]
            /\ Tokens' = Tokens \o <<[id |-> id, range |-> Relative(Range(s, s + 1))],
                                     [id |-> id + 1, range |-> Relative(Range(s + 1, e))]>>
            /\ conv'.id_alloc.next_id = id + 2
            /\ Delims' = Delims
            /\ SyntheticOrigins' = SyntheticOrigins]_vars

\* `a 'b` has been converted: the lifetime at [1, 3) is the leaves `'` and
\* `b` with the ids 1 and 2
C24_Witness ==
    /\ pc = "done"
    /\ input.mode = "raw"
    /\ Len(result.token_trees) = 3
    /\ result.token_trees[2] = Punct("'", "Joint", 1)
    /\ result.token_trees[3] = Ident(<<"b">>, 2)
    /\ \E i \in 1..Len(Tokens) : Tokens[i] = [id |-> 1, range |-> Range(1, 2)]
    /\ \E i \in 1..Len(Tokens) : Tokens[i] = [id |-> 2, range |-> Range(2, 3)]


----------------------------------------------------------------------------
(* Root flattening. *)

\* the root subtree once the repair has left it alone on the stack
Root == stack[1].subtree

\* the root has one child only and that child is a Subtree
HasSingleSubtree(t) == Len(t.token_trees) = 1 /\ t.token_trees[1].tt = "Subtree"

(* C25: convert_tokens returns only when the end-of-stream repair has left *)
(* the root alone on the stack.  It returns the single child of the root   *)
(* exactly when the root then has exactly one child and that child is a    *)
(* Subtree; in every other case it returns the root itself with all its    *)
(* children.                                                               *)
C25_RootFlattening ==
    /\ [][pc' = "done" =>
            /\ pc = "flush" /\ Len(stack) = 1
            /\ IF HasSingleSubtree(Root)
               THEN result' = Root.token_trees[1]
               ELSE result' = Root]_vars
    /\ [](pc = "done" =>
            /\ Root.delimiter = NoDelimiter
            /\ (result # Root) <=> HasSingleSubtree(Root)
            /\ result # Root => result = Root.token_trees[1])

\* `( a )` has been converted: the parenthesis is returned in place of
\* the root that holds nothing else
C25_Witness ==
    /\ pc = "done"
    /\ Len(Root.token_trees) = 1
    /\ result = Root.token_trees[1]
    /\ result.delimiter.kind = "Parenthesis"
    /\ Len(result.token_trees) = 1


----------------------------------------------------------------------------
(* token_tree_to_syntax_node on any token tree: the sink replays a tree    *)
(* that may hold subtrees without delimiter, as macro expansion builds     *)
(* them, under the Token steps of the parser.                              *)

MaxSinkLen == 3

\* the leaves of the trees, and the subtrees among the children of the root
SinkLeaves ==
    {Ident(<<"a">>, 1), Punct("+", "Alone", 2), Punct("+", "Joint", 3),
     Punct(";", "Alone", 4), Punct("'", "Joint", 5)}

SinkSubtrees ==
    {Subtree(d, tts) :
        d \in {NoDelimiter, Delimiter("Parenthesis", 6)},
        tts \in SeqUpTo(SinkLeaves \ {Punct("'", "Joint", 5)}, 1)}

\* to_parser_input accepts an apostrophe only when an Ident leaf follows it
ParserAccepts(tts) ==
    \A i \in 1..Len(tts) :
        (tts[i].tt = "Punct" /\ tts[i].char = "'") =>
            i < Len(tts) /\ tts[i + 1].tt = "Ident"

\* an entry of the buffer that yields text: a leaf, or the opener or the
\* closer of a subtree with a delimiter
IsItem(e) == IF e.t = "Leaf" THEN TRUE ELSE e.delimiter.kind # "None"

\* the parser has a token left to emit: an entry at or after c yields text
ItemRemains(lin, c) == \E p \in c..Len(lin) : IsItem(lin[p])

\* the first entry at or after c that yields text
NextItem(lin, c) ==
    CHOOSE p \in c..Len(lin) :
        IsItem(lin[p]) /\ \A q \in c..(p - 1) : ~IsItem(lin[q])

\* conv holds the parser step being handled, none at first
InitSink ==
    \E tts \in SeqUpTo(SinkLeaves \cup SinkSubtrees, MaxSinkLen) :
        /\ ParserAccepts(tts)
        /\ input = [mode |-> "sink", tt |-> Subtree(NoDelimiter, tts)]
        /\ conv = [kind |-> "NONE", n |-> 0]
        /\ stack = <<>>
        /\ pc = "sink"
        /\ result = Subtree(NoDelimiter, tts)
        /\ sink = NewSink(TokenBuffer(Subtree(NoDelimiter, tts)))

\* parser::Step::Token { kind, n_input_tokens } while the parser has input
\* left: LIFETIME_IDENT at an apostrophe, any other kind elsewhere
SinkTokenEvent ==
    /\ pc = "sink"
    /\ sink.phase = "run"
    /\ ItemRemains(sink.lin, sink.cursor)
    /\ \E n \in 1..MaxStep :
        LET first == sink.lin[NextItem(sink.lin, sink.cursor)]
            kind == IF first.t = "Leaf" /\ first.leaf.tt = "Punct" /\ first.leaf.char = "'"
                    THEN "LIFETIME_IDENT" ELSE "TOKEN"
        IN /\ sink' = SinkToken(sink, kind, n)
           /\ conv' = [kind |-> kind, n |-> n]
    /\ UNCHANGED <<input, stack, pc, result>>

\* tree_sink.finish(), the parser having emitted every token
SinkDone ==
    /\ pc = "sink"
    /\ sink.phase = "run"
    /\ ~ItemRemains(sink.lin, sink.cursor)
    /\ pc' = "finished"
    /\ UNCHANGED <<input, conv, stack, result, sink>>

NextSink ==
    \/ SinkTokenEvent
    \/ SinkDone

SpecSink == InitSink /\ [][NextSink]_vars

\* the sink has handled a Token step and has returned
TokenHandled == pc = "sink" /\ sink' # sink /\ sink'.phase = "run"

\* the entries from `from` up to `to` that yield text, and their text
ItemsIn(lin, from, to) == {p \in from..(to - 1) : IsItem(lin[p])}
ItemText(e) ==
    IF e.t = "Leaf" THEN LeafText(e.leaf)
    ELSE <<DelimToStr(e.delimiter.kind, e.t = "End")>>
TextIn(lin, from, to) ==
    Concat([i \in 1..(to - from) |->
              IF IsItem(lin[from + i - 1]) THEN ItemText(lin[from + i - 1]) ELSE <<>>])

\* the greatest of a set of positions
Greatest(P) == CHOOSE p \in P : \A q \in P : q <= p

WhitespaceToken == [kind |-> "WHITESPACE", text |-> <<" ">>]

(* C26, as claimed: after the sink handles a Token(kind, n) step, it       *)
(* appends exactly one single-space whitespace token to the builder and    *)
(* advances text_pos by one if and only if the last item the step consumed *)
(* was an Alone Punct leaf whose character is not `;` and the next item to *)
(* be consumed is a Punct leaf; otherwise it appends no whitespace and     *)
(* text_pos advances by the consumed text only.                            *)
C26_Claimed ==
    [][TokenHandled =>
        LET lin == sink.lin
            consumed == ItemsIn(lin, sink.cursor, sink'.cursor)
            text == TextIn(lin, sink.cursor, sink'.cursor)
            token == [kind |-> conv'.kind, text |-> text]
            last == Greatest(consumed)
            separates ==
                /\ consumed # {}
                /\ IsPunctLeaf(lin, last)
                /\ lin[last].leaf.spacing = "Alone"
                /\ lin[last].leaf.char # ";"
                /\ ItemRemains(lin, sink'.cursor)
                /\ IsPunctLeaf(lin, NextItem(lin, sink'.cursor))
        IN IF separates
           THEN /\ sink'.inner = sink.inner \o <<token, WhitespaceToken>>
                /\ sink'.text_pos = sink.text_pos + Len(text) + 1
           ELSE /\ sink'.inner = sink.inner \o <<token>>
                /\ sink'.text_pos = sink.text_pos + Len(text)]_vars


----------------------------------------------------------------------------
(* Where the sink puts whitespace. *)

\* the sink has handled a Token step and has appended a whitespace token
SpaceAppended == TokenHandled /\ Len(sink'.inner) = Len(sink.inner) + 2

(* C27, as claimed: the sink inserts a whitespace token only between two   *)
(* Alone puncts and never next to a `;`: the item right before an inserted *)
(* space is an Alone punct that is not `;`, and the item right after it is *)
(* an Alone punct that is not `;`.                                         *)
C27_Claimed ==
    [][SpaceAppended =>
        LET lin == sink.lin
            prev == Greatest(ItemsIn(lin, sink.cursor, sink'.cursor))
            next == NextItem(lin, sink'.cursor)
        IN /\ IsPunctLeaf(lin, prev)
           /\ lin[prev].leaf.spacing = "Alone" /\ lin[prev].leaf.char # ";"
           /\ ItemRemains(lin, sink'.cursor)
           /\ IsPunctLeaf(lin, next)
           /\ lin[next].leaf.spacing = "Alone" /\ lin[next].leaf.char # ";"]_vars

(* C27: the sink inserts a whitespace token only right after an Alone      *)
(* punct leaf that is not `;` and right before a punct leaf, the two being *)
(* neighbours in the buffer; the punct after the space may be a `;` and    *)
(* may be Joint.  The space is the single token appended after the token   *)
(* of the step, and in the text of the builder no inserted space comes     *)
(* first, follows another inserted space or follows a `;`.                 *)
C27_WhitespacePlacement ==
    /\ [][SpaceAppended =>
            LET lin == sink.lin
                prev == Greatest(ItemsIn(lin, sink.cursor, sink'.cursor))
                next == NextItem(lin, sink'.cursor)
            IN /\ IsPunctLeaf(lin, prev)
               /\ lin[prev].leaf.spacing = "Alone" /\ lin[prev].leaf.char # ";"
               /\ ItemRemains(lin, sink'.cursor)
               /\ IsPunctLeaf(lin, next)
               /\ next = prev + 1
               /\ sink'.inner[Len(sink'.inner)] = WhitespaceToken
               /\ sink'.inner[Len(sink'.inner) - 1].kind # "WHITESPACE"]_vars
    /\ [](pc \in {"sink", "finished"} =>
            \A i \in 1..Len(sink.inner) :
                Inserted(i) =>
                    /\ i > 1
                    /\ sink.inner[i - 1].kind # "WHITESPACE"
                    /\ sink.inner[i - 1].text # <<>>
                    /\ Last(sink.inner[i - 1].text) # ";")

\* a space has been inserted after a `+` and the item to be consumed next
\* is a `;`
C27_Witness ==
    /\ pc = "sink"
    /\ sink.phase = "run"
    /\ sink.inner # <<>>
    /\ Last(sink.inner) = WhitespaceToken
    /\ IsPunctLeaf(sink.lin, sink.cursor)
    /\ sink.lin[sink.cursor].leaf.char = ";"
    /\ sink.lin[sink.cursor - 1].leaf.char = "+"


----------------------------------------------------------------------------
(* How much a Token step consumes. *)

\* the number of items TtTreeSink::token is to consume for a step
Wanted(step) == IF step.kind = "LIFETIME_IDENT" THEN 2 ELSE step.n

----------------------------------------------------------------------------
(* What a conversion removes from the TokenMap. *)

\* the relation `old` is the beginning of the relation `new`
Extends(new, old) == Len(old) <= Len(new) /\ SubSeq(new, 1, Len(old)) = old

(* C29, as claimed: during a conversion next_id never decreases and no     *)
(* entry of the TokenMap, ordinary, delimiter or synthetic, is ever        *)
(* removed, whatever the token stream.                                     *)
C29_Claimed ==
    [][/\ conv'.id_alloc.next_id >= conv.id_alloc.next_id
       /\ Extends(Tokens', Tokens)
       /\ Extends(SyntheticOrigins', SyntheticOrigins)
       /\ IdSet(Delims) \subseteq IdSet(Delims')]_vars

(* C29: during a conversion next_id never decreases and no ordinary and no *)
(* synthetic entry of the TokenMap is ever removed or changed.  While the  *)
(* tokens are read no delimiter entry is removed either: an entry keeps    *)
(* its id and its open range, and only its close range may be set.  The    *)
(* end-of-stream repair removes the delimiter entry of each opener that    *)
(* was never closed, that one entry per round, and leaves the entries of   *)
(* the closed pairs as they are.                                           *)
C29_MapGrows ==
    [][/\ conv'.id_alloc.next_id >= conv.id_alloc.next_id
       /\ Extends(Tokens', Tokens)
       /\ Extends(SyntheticOrigins', SyntheticOrigins)
       /\ IF pc = "flush" /\ Len(stack) > 1
          THEN LET idx == Last(stack).idx
               IN /\ idx \in 1..Len(Delims)
                  /\ Delims[idx].id = Last(stack).subtree.delimiter.id
                  /\ Delims' = RemoveAt(Delims, idx)
          ELSE /\ Len(Delims') >= Len(Delims)
               /\ \A i \in 1..Len(Delims) :
                    /\ Delims'[i].id = Delims[i].id
                    /\ Delims'[i].open = Delims[i].open]_vars

\* `( ) (` has been converted: the pair of the first parenthesis is kept,
\* the pair of the second was removed, and three ids were minted
C29_Witness ==
    /\ pc = "done"
    /\ input.mode = "raw"
    /\ conv.id_alloc.next_id = 3
    /\ Len(Delims) = 1
    /\ Delims[1].id = 0
    /\ Len(Tokens) = 1
    /\ Tokens[1].id = 2


----------------------------------------------------------------------------
(* The ids of a returned subtree, in document order. *)

OpenerChars == {"(", "{", "["}

\* the ids of a subtree in document order, the id of a delimiter before
\* the ids of the children; `opener` marks the leaf of an opener that the
\* end-of-stream repair has demoted
RECURSIVE DocIds(_)
DocIds(t) ==
    <<[id |-> t.delimiter.id, opener |-> FALSE]>>
    \o Concat([i \in 1..Len(t.token_trees) |->
          LET c == t.token_trees[i] IN
          IF c.tt = "Subtree" THEN DocIds(c)
          ELSE <<[id |-> c.id,
                  opener |-> IF c.tt = "Punct" THEN c.char \in OpenerChars ELSE FALSE]>>])

(* C30, as claimed: in the subtree a conversion returns, walked in         *)
(* document order with a delimiter id visited at its opener, the ids that  *)
(* are not the unspecified sentinel are strictly increasing, whatever the  *)
(* token stream, repaired or not.                                          *)
C30_Claimed ==
    pc = "done" =>
        LET ids == DocIds(result) IN
        \A i, j \in 1..Len(ids) :
            (i < j /\ ids[i].id # Unspecified /\ ids[j].id # Unspecified) =>
                ids[i].id < ids[j].id

(* C30: in the subtree a conversion returns, walked in document order with *)
(* a delimiter id visited at its opener, the ids that are not the          *)
(* unspecified sentinel are strictly increasing but for the leaves of the  *)
(* openers that the end-of-stream repair has demoted: such a leaf carries  *)
(* an id minted during the repair, greater than every id that follows it   *)
(* in document order and greater than every id of a token before it.       *)
C30_IdsInOrder ==
    pc = "done" =>
        LET ids == DocIds(result) IN
        \A i, j \in 1..Len(ids) :
            (i < j /\ ids[i].id # Unspecified /\ ids[j].id # Unspecified) =>
                IF ids[i].opener
                THEN ids[i].id > ids[j].id
                ELSE ids[i].id < ids[j].id

\* `( ) (` has been converted: the parenthesis with the id 0 comes first,
\* the demoted `(` with the id 2 after it
C30_Witness ==
    /\ pc = "done"
    /\ input.mode = "raw"
    /\ Len(result.token_trees) = 2
    /\ result.token_trees[1].tt = "Subtree"
    /\ result.token_trees[1].delimiter.id = 0
    /\ result.token_trees[2].tt = "Punct"
    /\ result.token_trees[2].char = "("
    /\ result.token_trees[2].id = 2


----------------------------------------------------------------------------
(* The stack of convert_tokens. *)

\* the delimiter kinds left open, innermost last, once the loop has handled
\* the tokens of the given kinds: an opener opens, the closer the innermost
\* open delimiter expects closes it, anything else leaves them as they are
RECURSIVE OpenKinds(_)
OpenKinds(kinds) ==
    IF kinds = <<>> THEN <<>>
    ELSE LET before == OpenKinds(SubSeq(kinds, 1, Len(kinds) - 1))
             kind == kinds[Len(kinds)]
         IN IF before # <<>> /\ kind = Expected(before[Len(before)])
            THEN SubSeq(before, 1, Len(before) - 1)
            ELSE IF OpenerDelim(kind) # "None"
            THEN Append(before, OpenerDelim(kind))
            ELSE before

\* the kinds of the tokens bumped so far
BumpedKinds ==
    IF input.mode = "raw"
    THEN [i \in 1..conv.pos |-> input.lexed[i].kind]
    ELSE LET S == Stream
             n == Len(S) - Len(BumpAll(conv))
         IN [i \in 1..n |-> Kind(S[i].token)]

(* C31: in every state of convert_tokens the stack is not empty, its       *)
(* bottom entry is the root, without delimiter and with the slot !0, and   *)
(* every entry above it has a delimiter and the slot open_delim gave it:   *)
(* the slot holds the pair with the id of the delimiter and the range of   *)
(* the opener.  While the tokens are read the entries above the bottom are *)
(* the openers seen and not yet closed, outermost first; a closer that     *)
(* matches the innermost open delimiter finds an entry to pop; every entry *)
(* the flush pops has a delimiter.                                         *)
C31_StackShape ==
    /\ Len(stack) >= 1
    /\ stack[1].subtree.delimiter = NoDelimiter
    /\ stack[1].idx = RootIdx
    /\ \A i \in 2..Len(stack) :
        /\ stack[i].subtree.delimiter.kind \in {"Parenthesis", "Brace", "Bracket"}
        /\ stack[i].idx \in 1..Len(Delims)
        /\ Delims[stack[i].idx].id = stack[i].subtree.delimiter.id
        /\ Delims[stack[i].idx].open = Relative(stack[i].open_range)
        /\ \A j \in 2..Len(stack) : i < j => stack[i].idx < stack[j].idx
    /\ pc = "convert" =>
        /\ [i \in 1..(Len(stack) - 1) |-> stack[i + 1].subtree.delimiter.kind]
              = OpenKinds(BumpedKinds)
        /\ Takes(Bump(conv), "close") => Len(stack) > 1
    /\ (pc = "flush" /\ Len(stack) > 1) =>
        Last(stack).subtree.delimiter.kind # "None"

\* `{ (` has been read and the end of the stream found: the flush is about
\* to pop the parenthesis, with the brace and the root below it
C31_Witness ==
    /\ pc = "flush"
    /\ Len(stack) = 3
    /\ stack[2].subtree.delimiter.kind = "Brace"
    /\ stack[3].subtree.delimiter.kind = "Parenthesis"
    /\ stack[2].idx = 1 /\ stack[3].idx = 2


----------------------------------------------------------------------------
(* What the conversion keeps of the token stream. *)

\* the kinds the loop turns into token trees: punctuation, identifiers,
\* keywords, literals and lifetimes
IsSignificant(kind) ==
    \/ is_punct(kind)
    \/ kind \in {"IDENT", "UNDERSCORE", "TRUE_KW", "FALSE_KW"}
    \/ is_keyword(kind)
    \/ is_literal(kind)
    \/ kind = "LIFETIME_IDENT"

\* the text one bump delivers: one character of a punctuation token the
\* Convertor hands out piecewise, the whole text of any other token
BumpedText(token) ==
    IF token.variant = "Punch" THEN <<Unwrap(ToChar(token))>> ELSE ToText(token)

\* every token of the input in the order the conversion bumps them
BumpedTokens ==
    IF input.mode = "raw"
    THEN [i \in 1..Len(input.lexed) |-> RawToken(i - 1)]
    ELSE LET S == Stream IN [i \in 1..Len(S) |-> S[i].token]

\* the texts of the bumped tokens of a significant kind, in bump order
SignificantTexts ==
    LET toks == BumpedTokens
    IN Concat([i \in 1..Len(toks) |->
                 IF IsSignificant(Kind(toks[i]))
                 THEN <<BumpedText(toks[i])>> ELSE <<>>])

\* the leaves of a subtree in document order, a delimited subtree as its
\* opener, its children and its closer; the token trees made up for a doc
\* comment carry the unspecified id (the `#`, the `!`, the bracket) and are
\* left out with all they hold
RECURSIVE DocumentOrder(_)
DocumentOrder(t) ==
    LET inner == Concat([i \in 1..Len(t.token_trees) |->
                    LET c == t.token_trees[i] IN
                    IF c.tt = "Subtree" THEN DocumentOrder(c)
                    ELSE IF c.id = Unspecified THEN <<>>
                    ELSE <<c>>])
        d == t.delimiter
    IN IF d.kind = "None" THEN inner
       ELSE IF d.id = Unspecified THEN <<>>
       ELSE <<Punct(DelimToStr(d.kind, FALSE), "Alone", d.id)>> \o inner
            \o <<Punct(DelimToStr(d.kind, TRUE), "Alone", d.id)>>

\* the texts of a sequence of leaves, the apostrophe of a lifetime and the
\* identifier after it counted as one token
RECURSIVE TokenTexts(_)
TokenTexts(leaves) ==
    IF leaves = <<>> THEN <<>>
    ELSE IF Len(leaves) >= 2 /\ leaves[1].tt = "Punct" /\ leaves[2].tt = "Ident"
    THEN IF leaves[1].char = "'"
         THEN <<(<<"'">> \o leaves[2].text)>> \o TokenTexts(SubSeq(leaves, 3, Len(leaves)))
         ELSE <<LeafText(leaves[1])>> \o TokenTexts(Tail(leaves))
    ELSE <<LeafText(leaves[1])>> \o TokenTexts(Tail(leaves))

(* C32: the conversion keeps the order of the tokens and loses no          *)
(* significant one: the subtree a conversion returns, flattened in         *)
(* document order (a delimited subtree as opener, children, closer; the    *)
(* token trees made up for doc comments left out; the two leaves of a      *)
(* lifetime counted as one token), is the sequence of the bumped tokens    *)
(* whose kind is punctuation, identifier, keyword, literal or lifetime, in *)
(* the order they were bumped, unmatched openers and closers included.     *)
C32_TokensKept ==
    pc = "done" => TokenTexts(DocumentOrder(result)) = SignificantTexts

\* `) (` with a token the loop skips in between has been converted: the
\* closer finds nothing to close and the opener is never closed, and the
\* two are the leaves returned
C32_Witness ==
    /\ pc = "done"
    /\ Len(BumpedTokens) = 3
    /\ SignificantTexts = << <<")">>, <<"(">> >>
    /\ Len(LeavesOf(result)) = 2

====
